---- MODULE Spec2Model ----
(***************************************************************************)
(* Model of the terminal rich-text core of gitv:                           *)
(*   - crates/hyperrat/src/lib.rs: the Link widget (OSC 8 hyperlink or      *)
(*     plain truncated text painted into a row of buffer cells);            *)
(*   - src/ui/components/issue_conversation.rs: MarkdownRenderer, the       *)
(*     markdown event handlers that build a width-constrained document      *)
(*     (lines of spans plus link segments).                                 *)
(*                                                                         *)
(* Strings are sequences of characters.  The alphabet keeps the three       *)
(* display-width classes of textwrap::core::display_width: WideGlyph is a   *)
(* double-width glyph, ZeroWidthChar a zero-width character that is not     *)
(* whitespace (such as U+200B), every other character is one cell wide.     *)
(* " " and "\n" are the whitespace characters.                              *)
(***************************************************************************)
EXTENDS Integers, Sequences, FiniteSets, TLC

VARIABLES
    tr,     \* the last truncate_label call: its arguments and its result
    lk,     \* the Link widget's world: the buffer row and the last render, or
            \* the body's link list, line offset and frame and the last paint
    md,     \* one render_markdown call in progress: the renderer and its events
    rs      \* completed render_markdown calls and the syntect assets cell

vars == <<tr, lk, md, rs>>

(***************************************************************************)
(* Bounds of the model.                                                     *)
(***************************************************************************)
MaxLabelLen == 5        \* longest label handed to truncate_label
MaxTruncWidth == 6      \* widest max_width handed to truncate_label
BufWidth == 5           \* columns of the buffer row the Link widget paints
MaxEvents == 5          \* markdown events handled in one render
MaxRenders == 3         \* render_markdown calls in one run of the process
BufHeight == 4          \* rows of the frame the body is painted into
MaxLineOffset == 2      \* largest line offset the body paragraph is scrolled to
MaxWrapEvents == 3      \* markdown events of a render with wide prefixes

(***************************************************************************)
(* Generic helpers.                                                         *)
(***************************************************************************)
Min(a, b) == IF a < b THEN a ELSE b
Max(a, b) == IF a > b THEN a ELSE b
SatSub(a, b) == IF a > b THEN a - b ELSE 0

Repeat(c, n) == [i \in 1..n |-> c]

RECURSIVE SeqsUpTo(_, _)
SeqsUpTo(S, n) ==
    IF n = 0 THEN {<<>>}
    ELSE LET shorter == SeqsUpTo(S, n - 1)
         IN  shorter \cup {Append(s, c) : s \in {t \in shorter : Len(t) = n - 1}, c \in S}

(***************************************************************************)
(* textwrap::core::display_width: the sum of the characters' cell widths.   *)
(***************************************************************************)
WideGlyph == "<wide>"
ZeroWidthChar == "<zw>"
WideSpace == "<widespace>"      \* U+3000: whitespace, two cells

CharWidth(c) == IF c \in {WideGlyph, WideSpace} THEN 2 ELSE IF c = ZeroWidthChar THEN 0 ELSE 1

RECURSIVE DisplayWidth(_)
DisplayWidth(s) ==
    IF s = <<>> THEN 0 ELSE CharWidth(Head(s)) + DisplayWidth(Tail(s))

IsWhitespace(c) == c \in {" ", "\n", WideSpace}

(***************************************************************************)
(* hyperrat: truncate_label.                                                *)
(***************************************************************************)
Dots == <<".", ".", ".">>

\* The loop of truncate_label: whole characters are taken while
\* width + ch_width + 3 <= max_width; the first one that does not fit ends
\* the loop (break), also when a narrower one follows.
RECURSIVE TruncateLoop(_, _, _, _)
TruncateLoop(rest, out, width, max_width) ==
    IF rest = <<>> THEN out
    ELSE LET ch_width == CharWidth(Head(rest))
         IN  IF width + ch_width + 3 > max_width THEN out
             ELSE TruncateLoop(Tail(rest), Append(out, Head(rest)),
                               width + ch_width, max_width)

\* Mutant: the ellipsis is not reserved in the loop's budget.
TruncateLabelNoReserve(label, max_width) ==
    IF max_width = 0 THEN [text |-> <<>>, truncated |-> label # <<>>]
    ELSE IF DisplayWidth(label) <= max_width
         THEN [text |-> label, truncated |-> FALSE]
    ELSE IF max_width <= 3
         THEN [text |-> Repeat(".", max_width), truncated |-> TRUE]
    ELSE [text |-> TruncateLoop(label, <<>>, 0, max_width + 3) \o Dots,
          truncated |-> TRUE]

\* Mutant: a label exactly as wide as max_width is truncated too.
TruncateLabelStrict(label, max_width) ==
    IF max_width = 0 THEN [text |-> <<>>, truncated |-> label # <<>>]
    ELSE IF DisplayWidth(label) < max_width
         THEN [text |-> label, truncated |-> FALSE]
    ELSE IF max_width <= 3
         THEN [text |-> Repeat(".", max_width), truncated |-> TRUE]
    ELSE [text |-> TruncateLoop(label, <<>>, 0, max_width) \o Dots,
          truncated |-> TRUE]

TruncateLabel(label, max_width) ==
    IF max_width = 0 THEN [text |-> <<>>, truncated |-> label # <<>>]
    ELSE IF DisplayWidth(label) <= max_width
         THEN [text |-> label, truncated |-> FALSE]
    ELSE IF max_width <= 3
         THEN [text |-> Repeat(".", max_width), truncated |-> TRUE]
    ELSE [text |-> TruncateLoop(label, <<>>, 0, max_width) \o Dots,
          truncated |-> TRUE]

\* Mutant: the suffix is appended to the label as it is.
WithFallbackSuffixAppended(label, suffix, max_width) ==
    IF max_width = 0 THEN <<>> ELSE label \o suffix

\* with_fallback_suffix
WithFallbackSuffix(label, suffix, max_width) ==
    IF max_width = 0 THEN <<>>
    ELSE LET suffix_width == DisplayWidth(suffix)
         IN  IF suffix_width >= max_width
             THEN TruncateLabel(suffix, max_width).text
             ELSE TruncateLabel(label, max_width - suffix_width).text \o suffix

(***************************************************************************)
(* ratatui styles and buffer cells, as far as the Link widget uses them.    *)
(* A Style is a patch: fg "None" leaves the foreground alone, mods are the  *)
(* modifiers it adds.  A Cell holds a symbol, a resolved style and the skip *)
(* (continuation) flag.                                                     *)
(***************************************************************************)
StylePatch(base, other) ==
    [fg   |-> IF other.fg # "None" THEN other.fg ELSE base.fg,
     mods |-> base.mods \cup other.mods]

DefaultLinkStyle == [fg |-> "Blue", mods |-> {"UNDERLINED"}]
BoldPatch == [fg |-> "None", mods |-> {"BOLD"}]

BlankCell == [symbol |-> <<" ">>, style |-> [fg |-> "Reset", mods |-> {}], skip |-> FALSE]

\* Cell::set_style: the foreground is replaced when the style sets one, the
\* style's modifiers are inserted into the cell's.
CellSetStyle(cell, style) == [cell EXCEPT !.style = StylePatch(cell.style, style)]

\* Buffer::empty.  A position outside the row is one for which
\* Buffer::cell_mut returns None: the writes below skip it.
EmptyBuffer == [x \in 0..(BufWidth - 1) |-> BlankCell]

(***************************************************************************)
(* hyperrat: Link.                                                          *)
(***************************************************************************)
\* Mutant: a focused link is bold also when it has a hover style.
ResolvedStyleAlwaysBold(link) ==
    IF link.focused
    THEN IF link.hover_style # <<>>
         THEN StylePatch(StylePatch(link.style, link.hover_style[1]), BoldPatch)
         ELSE StylePatch(link.style, BoldPatch)
    ELSE link.style

\* Link::resolved_style
ResolvedStyle(link) ==
    IF link.focused
    THEN IF link.hover_style # <<>>
         THEN StylePatch(link.style, link.hover_style[1])
         ELSE StylePatch(link.style, BoldPatch)
    ELSE link.style

\* Mutant: an empty url is rendered as a hyperlink too.
ShouldRenderHyperlinkAnyUrl(link, osc8) == link.enabled /\ osc8

\* Link::should_render_hyperlink; osc8 is what osc8_supported() answers
\* (false exactly when TERM is "dumb").
ShouldRenderHyperlink(link, osc8) == link.enabled /\ osc8 /\ link.url # <<>>

\* encode_osc8
EncodeOsc8(label, url) ==
    <<"ESC]8;;">> \o url \o <<"ESC\\">> \o label \o <<"ESC]8;;", "ESC\\">>

\* Mutant: the row is blanked but the skip flags are left as they were.
ClearAreaRowSymbolOnly(area, buf) ==
    [x \in DOMAIN buf |->
        IF x >= area.x /\ x < area.x + area.width
        THEN [buf[x] EXCEPT !.symbol = <<" ">>]
        ELSE buf[x]]

\* clear_area_row
ClearAreaRow(area, buf) ==
    [x \in DOMAIN buf |->
        IF x >= area.x /\ x < area.x + area.width
        THEN [buf[x] EXCEPT !.symbol = <<" ">>, !.skip = FALSE]
        ELSE buf[x]]

\* Buffer::set_stringn (ratatui-core): graphemes of zero width are dropped;
\* writing stops at the first grapheme wider than what is left of
\* min(buffer right edge - x, max_width); the cells a wide grapheme hides are
\* reset.
RECURSIVE SetStringN(_, _, _, _, _)
SetStringN(buf, x, string, remaining, style) ==
    IF string = <<>> THEN buf
    ELSE LET c == Head(string)
             w == CharWidth(c)
         IN  IF w = 0 THEN SetStringN(buf, x, Tail(string), remaining, style)
             ELSE IF w > remaining THEN buf
             ELSE LET written ==
                          [p \in DOMAIN buf |->
                              IF p = x
                              THEN CellSetStyle([buf[p] EXCEPT !.symbol = <<c>>], style)
                              ELSE IF p > x /\ p < x + w THEN BlankCell
                              ELSE buf[p]]
                  IN  SetStringN(written, x + w, Tail(string), remaining - w, style)

\* The label Link::render shows: the label (the url when the label is empty)
\* truncated to the area, with the fallback suffix in plain mode.
VisibleLabel(link, max_width, osc8) ==
    LET base_label == IF link.label = <<>> THEN link.url ELSE link.label
        t == TruncateLabel(base_label, max_width)
    IN  IF ~ShouldRenderHyperlink(link, osc8) /\ t.truncated /\ link.fallback_suffix # <<>>
        THEN WithFallbackSuffix(t.text, link.fallback_suffix[1], max_width)
        ELSE t.text

LabelWidth(link, max_width, osc8) ==
    Min(DisplayWidth(VisibleLabel(link, max_width, osc8)), max_width)

\* The body of Link::render after the zero-area guard.
RenderBody(link, area, buf, osc8) ==
    LET style == ResolvedStyle(link)
        max_width == area.width
        label == VisibleLabel(link, max_width, osc8)
        label_width == LabelWidth(link, max_width, osc8)
        cleared == ClearAreaRow(area, buf)
    IN  IF label_width = 0 THEN buf
        ELSE IF ShouldRenderHyperlink(link, osc8)
        THEN [x \in DOMAIN buf |->
                 IF x = area.x
                 THEN CellSetStyle([cleared[x] EXCEPT !.symbol = EncodeOsc8(label, link.url),
                                                      !.skip = FALSE], style)
                 ELSE IF x > area.x /\ x < area.x + label_width
                 THEN CellSetStyle([cleared[x] EXCEPT !.symbol = <<" ">>, !.skip = TRUE], style)
                 ELSE cleared[x]]
        ELSE LET written == SetStringN(cleared, area.x, label,
                                       Min(SatSub(BufWidth, area.x), max_width), style)
             IN  [x \in DOMAIN buf |->
                     IF x >= area.x /\ x < area.x + label_width
                     THEN [written[x] EXCEPT !.skip = FALSE]
                     ELSE written[x]]

\* Mutant: the zero-area guard looks at the width only.
LinkRenderWidthGuardOnly(link, area, buf, osc8) ==
    IF area.width = 0 THEN buf ELSE RenderBody(link, area, buf, osc8)

\* Link::render
LinkRender(link, area, buf, osc8) ==
    IF area.width = 0 \/ area.height = 0 THEN buf
    ELSE RenderBody(link, area, buf, osc8)

(***************************************************************************)
(* Inputs of the Link widget.  An Option is a sequence: <<>> is None, <<v>> *)
(* is Some(v).                                                              *)
(***************************************************************************)
Url1 == <<"u">>
LongLabel == <<"l", "o", "n", "g", "e", "r">>
LinkLabels == {<<>>, <<ZeroWidthChar>>, <<"a", "b">>, <<WideGlyph, "a">>, LongLabel}
HoverStyle == [fg |-> "Red", mods |-> {}]
Suffix == <<"$">>
WideSuffix == <<WideGlyph, "$">>

\* Link::new
LinkNew(label, url) ==
    [label |-> label, url |-> url, style |-> DefaultLinkStyle, hover_style |-> <<>>,
     fallback_suffix |-> <<>>, enabled |-> TRUE, focused |-> FALSE]

\* Link::style
LinkStyle(link, style) == [link EXCEPT !.style = style]
PlainStyle == [fg |-> "None", mods |-> {}]

\* A render request: the link and what osc8_supported() answers.  Every label
\* is rendered enabled and disabled; the other settings vary on two labels.
Requests ==
    LET r(link, osc8) == [link |-> link, osc8 |-> osc8]
        ab == LinkNew(<<"a", "b">>, Url1)
        long == LinkNew(LongLabel, Url1)
    IN  {r(LinkNew(l, Url1), TRUE) : l \in LinkLabels}
        \cup {r([LinkNew(l, Url1) EXCEPT !.enabled = FALSE], TRUE) : l \in LinkLabels}
        \cup {r(ab, FALSE), r(LinkNew(<<"a", "b">>, <<>>), TRUE), r(LinkNew(<<>>, <<>>), TRUE),
              r([ab EXCEPT !.focused = TRUE], TRUE),
              r([ab EXCEPT !.focused = TRUE, !.hover_style = <<HoverStyle>>], TRUE),
              r([ab EXCEPT !.hover_style = <<HoverStyle>>, !.enabled = FALSE], TRUE),
              r([long EXCEPT !.fallback_suffix = <<Suffix>>], TRUE),
              r([long EXCEPT !.fallback_suffix = <<Suffix>>, !.enabled = FALSE], TRUE),
              r([long EXCEPT !.fallback_suffix = <<LongLabel>>], FALSE),
              r([long EXCEPT !.fallback_suffix = <<WideSuffix>>, !.enabled = FALSE], TRUE),
              r([ab EXCEPT !.fallback_suffix = <<Suffix>>, !.enabled = FALSE], TRUE),
              r(LinkStyle(ab, PlainStyle), FALSE),
              r([LinkStyle(ab, PlainStyle) EXCEPT !.focused = TRUE,
                                                  !.hover_style = <<HoverStyle>>,
                                                  !.enabled = FALSE], TRUE)}

\* The one-row regions of the buffer row a behaviour renders into; x + width
\* may pass the buffer's right edge.
Regions ==
    {[x |-> 0, y |-> 0, width |-> BufWidth, height |-> 1],
     [x |-> 0, y |-> 0, width |-> BufWidth - 1, height |-> 1],
     [x |-> 1, y |-> 0, width |-> 2, height |-> 1],
     [x |-> 1, y |-> 0, width |-> BufWidth, height |-> 1]}

\* A render goes to the region or to a zero-area rect at its origin.
AreasOf(region) ==
    {region, [region EXCEPT !.width = 0], [region EXCEPT !.height = 0]}

(***************************************************************************)
(* Specification of truncate_label as a function of its arguments.          *)
(***************************************************************************)
TruncAlphabet == {"a", WideGlyph, ZeroWidthChar, "."}

NoTruncCall == [called |-> FALSE, label |-> <<>>, max_width |-> 0,
                text |-> <<>>, truncated |-> FALSE]
NoMarkdown == [started |-> FALSE]
NoRenders == [assets |-> <<>>, calls |-> <<>>, cur |-> <<>>]
NoLinkRender == [region |-> [x |-> 0, y |-> 0, width |-> 0, height |-> 0],
                 buf |-> EmptyBuffer, last |-> <<>>]

InitTrunc ==
    /\ \E label \in SeqsUpTo(TruncAlphabet, MaxLabelLen), max_width \in 0..MaxTruncWidth :
           tr = [NoTruncCall EXCEPT !.label = label, !.max_width = max_width]
    /\ lk = NoLinkRender
    /\ md = NoMarkdown
    /\ rs = NoRenders

TruncateCall ==
    /\ ~tr.called
    /\ LET r == TruncateLabel(tr.label, tr.max_width)
       IN  tr' = [tr EXCEPT !.called = TRUE, !.text = r.text, !.truncated = r.truncated]
    /\ UNCHANGED <<lk, md, rs>>

NextTrunc == TruncateCall

SpecTrunc == InitTrunc /\ [][NextTrunc]_vars

(***************************************************************************)
(* Specification of the Link widget: any sequence of renders into one       *)
(* region of a buffer row.  lk.region is the region, lk.buf the buffer,     *)
(* lk.last the last render: its request, its area, the label and the label  *)
(* width it resolved to.                                                    *)
(***************************************************************************)
InitLink ==
    /\ tr = NoTruncCall
    /\ \E region \in Regions : lk = [NoLinkRender EXCEPT !.region = region]
    /\ md = NoMarkdown
    /\ rs = NoRenders

Render ==
    /\ \E req \in Requests, area \in AreasOf(lk.region) :
           lk' = [lk EXCEPT
                    !.buf = LinkRender(req.link, area, lk.buf, req.osc8),
                    !.last = <<[link |-> req.link, osc8 |-> req.osc8, area |-> area,
                                hyperlink |-> ShouldRenderHyperlink(req.link, req.osc8),
                                label |-> VisibleLabel(req.link, area.width, req.osc8),
                                label_width |-> LabelWidth(req.link, area.width, req.osc8)]>>]
    /\ UNCHANGED <<tr, md, rs>>

NextLink == Render

SpecLink == InitLink /\ [][NextLink]_vars

(***************************************************************************)
(* Claims about hyperrat.                                                   *)
(***************************************************************************)
EndsWithDots(s) == Len(s) >= 3 /\ SubSeq(s, Len(s) - 2, Len(s)) = Dots

\* C8: for every label s and width w, the text truncate_label(s, w) returns
\* is at most w cells wide and is reported truncated exactly when it differs
\* from s; a truncation at w > 3 ends in "..."; at w = 0 the text is empty and
\* truncation is reported exactly when s is non-empty.
C8_TruncateLabelContract ==
    tr.called =>
        /\ DisplayWidth(tr.text) <= tr.max_width
        /\ tr.truncated <=> (tr.text # tr.label)
        /\ (tr.truncated /\ tr.max_width > 3) => EndsWithDots(tr.text)
        /\ tr.max_width = 0 => (tr.text = <<>> /\ (tr.truncated <=> tr.label # <<>>))

\* A truncation at a width above 3 that keeps a wide glyph before the dots.
C8_Witness ==
    /\ tr.called /\ tr.truncated /\ tr.max_width > 3
    /\ Len(tr.text) > 3 /\ tr.text[1] = WideGlyph

LastRender == lk.last[1]
ZeroArea(area) == area.width = 0 \/ area.height = 0
RegionCells == {x \in DOMAIN lk.buf : x >= lk.region.x /\ x < lk.region.x + lk.region.width}

\* C9: a render into a rect of zero width or zero height leaves every cell of
\* the buffer (symbol, style, skip flag) as it was.
C9_ZeroAreaRenderIsNoOp ==
    [][(lk'.last # <<>> /\ ZeroArea(lk'.last[1].area)) => lk'.buf = lk.buf]_vars

\* A zero-height render (of a label that would be painted in a real rect) has
\* happened over a buffer that holds an earlier hyperlink.
C9_Witness ==
    /\ lk.last # <<>>
    /\ LastRender.area.height = 0 /\ LastRender.area.width > 0
    /\ LastRender.label_width > 0
    /\ \E x \in DOMAIN lk.buf : lk.buf[x].skip

\* C10: after a render into the region, whatever was rendered there before,
\* the skip flags of the region are exactly those of this render (the cells
\* 1..label_width-1 of a hyperlink), and every cell of the region the label
\* does not cover is blank without a skip flag.
C10_OnlyLastRenderFlags ==
    (lk.last # <<>> /\ LastRender.area = lk.region) =>
        \A x \in RegionCells :
            LET offset == x - lk.region.x
            IN  /\ lk.buf[x].skip <=>
                       (LastRender.hyperlink /\ offset >= 1 /\ offset < LastRender.label_width)
                /\ offset >= LastRender.label_width =>
                       (lk.buf[x].symbol = <<" ">> /\ ~lk.buf[x].skip)

\* What the code does keep of C10: the same, for renders whose visible label
\* is at least one cell wide (a render of a zero-width label returns before
\* clear_area_row).
StaleFlagsClearedByVisibleLabel ==
    (lk.last # <<>> /\ LastRender.area = lk.region /\ LastRender.label_width > 0) =>
        \A x \in RegionCells :
            LET offset == x - lk.region.x
            IN  /\ lk.buf[x].skip <=>
                       (LastRender.hyperlink /\ offset >= 1 /\ offset < LastRender.label_width)
                /\ offset >= LastRender.label_width =>
                       (lk.buf[x].symbol = <<" ">> /\ ~lk.buf[x].skip)

Interactive(req) == req.link.enabled /\ req.osc8 /\ req.link.url # <<>>
IsEncoded(symbol) == Len(symbol) >= 1 /\ symbol[1] = "ESC]8;;"
CellsOf(area) == {x \in DOMAIN lk.buf : x >= area.x /\ x < area.x + area.width}

\* C11: after an interactive render (enabled, supported, url not empty) into
\* a region of width N >= 1 of a label of display width L <= N, the first
\* cell of the region holds the escape sequence of the url and the visible
\* label, has the resolved style and no skip flag; the cells 1..L-1 are blank
\* with the skip flag; the cells L..N-1 are blank without the skip flag.
C11_InteractiveLayout ==
    (/\ lk.last # <<>>
     /\ Interactive(LastRender)
     /\ ~ZeroArea(LastRender.area)
     /\ LastRender.label_width <= LastRender.area.width) =>
        \A x \in CellsOf(LastRender.area) :
            LET offset == x - LastRender.area.x
                cell == lk.buf[x]
            IN  /\ offset = 0 =>
                       /\ cell.symbol = EncodeOsc8(LastRender.label, LastRender.link.url)
                       /\ cell.style = ResolvedStyle(LastRender.link)
                       /\ ~cell.skip
                /\ (offset >= 1 /\ offset < LastRender.label_width) =>
                       (cell.symbol = <<" ">> /\ cell.skip)
                /\ offset >= Max(1, LastRender.label_width) =>
                       (cell.symbol = <<" ">> /\ ~cell.skip)

\* C11, as the code has it: an interactive render into a region of width
\* N >= 1 whose visible label is 1 <= L <= N cells wide puts the escape
\* sequence of the url and the visible label into the first cell, without a
\* skip flag and with the resolved style patched onto the style the cell had
\* before (Cell::set_style replaces the foreground and adds the modifiers);
\* the cells 1..L-1 are blank with the skip flag, the cells L..N-1 blank
\* without it.
C11_InteractiveLayoutOfVisibleLabel ==
    [][(/\ lk'.last # <<>>
        /\ Interactive(lk'.last[1])
        /\ ~ZeroArea(lk'.last[1].area)
        /\ lk'.last[1].label_width >= 1) =>
           \A x \in DOMAIN lk.buf :
               LET last == lk'.last[1]
                   offset == x - last.area.x
                   cell == lk'.buf[x]
               IN  (offset >= 0 /\ offset < last.area.width) =>
                   /\ offset = 0 =>
                          /\ cell.symbol = EncodeOsc8(last.label, last.link.url)
                          /\ cell.style = StylePatch(lk.buf[x].style, ResolvedStyle(last.link))
                          /\ ~cell.skip
                   /\ (offset >= 1 /\ offset < last.label_width) =>
                          (cell.symbol = <<" ">> /\ cell.skip)
                   /\ offset >= last.label_width =>
                          (cell.symbol = <<" ">> /\ ~cell.skip)]_vars

\* An unfocused interactive render of a two-cell label over a first cell an
\* earlier focused render left bold: the region is wider than the label.
C11_Witness ==
    /\ lk.last # <<>>
    /\ Interactive(LastRender)
    /\ ~LastRender.link.focused
    /\ LastRender.label_width = 2
    /\ LastRender.area.width > 2
    /\ "BOLD" \in lk.buf[LastRender.area.x].style.mods
    /\ lk.buf[LastRender.area.x + 1].skip

\* On a cell that had the default style before, the first cell of an
\* interactive render of a visible label has exactly the resolved style.
FreshCellTakesResolvedStyle ==
    [][(/\ lk'.last # <<>>
        /\ Interactive(lk'.last[1])
        /\ ~ZeroArea(lk'.last[1].area)
        /\ lk'.last[1].label_width >= 1
        /\ lk.buf[lk'.last[1].area.x].style = BlankCell.style) =>
           lk'.buf[lk'.last[1].area.x].style = ResolvedStyle(lk'.last[1].link)]_vars

\* The cells a text takes when it is written as plain text: one cell with the
\* grapheme, then a blank cell for each further column of a wide grapheme;
\* zero-width graphemes take none.
RECURSIVE PlainCells(_)
PlainCells(text) ==
    IF text = <<>> THEN <<>>
    ELSE LET c == Head(text)
         IN  IF CharWidth(c) = 0 THEN PlainCells(Tail(text))
             ELSE <<<<c>>>> \o [i \in 1..(CharWidth(c) - 1) |-> <<" ">>]
                  \o PlainCells(Tail(text))

\* C12: a render writes an escape sequence into a cell only when the link is
\* enabled, the terminal supports hyperlinks and the url is not empty; when
\* one of the three fails a render into a region that is not empty writes the
\* visible label as plain text, one grapheme per cell, and after the render
\* no cell the label covers has the skip flag.
C12_PlainFallback ==
    [][lk'.last # <<>> =>
          LET last == lk'.last[1]
          IN  /\ (\E x \in DOMAIN lk.buf :
                      IsEncoded(lk'.buf[x].symbol) /\ lk'.buf[x] # lk.buf[x])
                     => Interactive(last)
              /\ (~Interactive(last) /\ ~ZeroArea(last.area)) =>
                     \A x \in DOMAIN lk.buf :
                         LET offset == x - last.area.x
                         IN  (offset >= 0 /\ offset < last.label_width) =>
                                 /\ lk'.buf[x].symbol = PlainCells(last.label)[offset + 1]
                                 /\ ~lk'.buf[x].skip]_vars

\* A plain render, on a terminal without hyperlink support, of an enabled link
\* with a url: its label starts with a wide glyph and covers cells that an
\* earlier interactive render could have flagged.
C12_Witness ==
    /\ lk.last # <<>>
    /\ ~Interactive(LastRender)
    /\ LastRender.link.url # <<>>
    /\ ~ZeroArea(LastRender.area)
    /\ LastRender.label_width >= 3
    /\ LastRender.label[1] = WideGlyph
    /\ lk.buf[LastRender.area.x].symbol = <<WideGlyph>>

(***************************************************************************)
(* MarkdownRenderer (issue_conversation.rs).  The renderer is a record with *)
(* the struct's fields; every method is an operator from the renderer to    *)
(* the renderer after the call.  A span is [content, style, kind]: kind is  *)
(* not part of the program's Span, it records which statement pushed the    *)
(* span ("indent", "border", "list", "space", "word", "long", "title",      *)
(* "rule", "code").  An Option is a sequence: <<>> is None, <<v>> Some(v).  *)
(***************************************************************************)
MinWidth == 10          \* MarkdownRenderer::new: max_width.max(10)
BorderWidth == 2        \* start_line / prefix_width: a quote border counts 2
MinRuleWidth == 8       \* rule: the divider is at least 8 repeats wide

StyleNew == [fg |-> "None", mods |-> {}]
\* A span is its content and style.  The other fields are history the
\* properties read: what pushed the span (kind), the ordinal of the link open
\* at that moment (0: none), the width counted so far on its line (col, -1
\* where it is not tracked) and whether the push recorded it in a link
\* segment (seg).
Span(content, style, kind) ==
    [content |-> content, style |-> style, kind |-> kind,
     link |-> 0, col |-> -1, seg |-> FALSE]

\* The string literals of the source.
BorderText == <<" ">>           \* Span::styled(" ", border_style) in start_line
ListPrefixText == <<" ">>       \* list_prefix = Some(" ")
RuleGlyph == <<>>               \* "".repeat(width) in rule

RECURSIVE RepeatStr(_, _)
RepeatStr(str, n) == IF n = 0 THEN <<>> ELSE str \o RepeatStr(str, n - 1)

\* MarkdownRenderer::new
RendererNew(max_width, indent) ==
    [lines |-> <<>>, links |-> <<>>, current_line |-> <<>>, current_width |-> 0,
     max_width |-> Max(max_width, MinWidth), indent |-> indent,
     style_stack |-> <<>>, current_style |-> StyleNew,
     in_block_quote |-> FALSE, block_quote_style |-> <<>>,
     block_quote_title_pending |-> FALSE,
     in_code_block |-> FALSE, code_block_lang |-> <<>>, code_block_buf |-> <<>>,
     list_prefix |-> <<>>, pending_space |-> FALSE, active_link_url |-> <<>>,
     link_no |-> 0,      \* history: the number of links opened so far
     failing |-> {}]     \* the raw code lines on which the highlighter fails in
                         \* this render, besides those HighlightLine names

\* Mutant: the prefix is taken to be the indent alone.
PrefixWidthIndentOnly(r) == r.indent

\* prefix_width
PrefixWidth(r) ==
    r.indent
    + (IF r.in_block_quote THEN BorderWidth ELSE 0)
    + (IF r.list_prefix # <<>> THEN DisplayWidth(r.list_prefix[1]) ELSE 0)

\* start_line
StartLine(r) ==
    IF r.current_line # <<>> THEN r
    ELSE LET border_style ==
                 IF r.block_quote_style # <<>>
                 THEN [fg |-> r.block_quote_style[1].border_color, mods |-> {}]
                 ELSE [fg |-> "DarkGray", mods |-> {}]
             indent_spans ==
                 IF r.indent > 0 THEN <<Span(Repeat(" ", r.indent), StyleNew, "indent")>>
                 ELSE <<>>
             border_spans ==
                 IF r.in_block_quote THEN <<Span(BorderText, border_style, "border")>>
                 ELSE <<>>
             list_spans ==
                 IF r.list_prefix # <<>> THEN <<Span(r.list_prefix[1], StyleNew, "list")>>
                 ELSE <<>>
         IN  [r EXCEPT !.current_line = indent_spans \o border_spans \o list_spans,
                       !.current_width = r.current_width + PrefixWidth(r)]

\* flush_line
FlushLine(r) ==
    IF r.current_line = <<>> THEN [r EXCEPT !.pending_space = FALSE]
    ELSE [r EXCEPT !.lines = Append(r.lines, r.current_line),
                   !.current_line = <<>>,
                   !.current_width = 0,
                   !.pending_space = FALSE]

\* push_blank_line without the look at the last line
PushBlankLineAlways(r) == [r EXCEPT !.lines = Append(r.lines, <<>>)]

\* push_blank_line
PushBlankLine(r) ==
    IF r.lines # <<>> /\ r.lines[Len(r.lines)] = <<>> THEN r
    ELSE [r EXCEPT !.lines = Append(r.lines, <<>>)]

\* push_style / pop_style
PushStyle(r, style) ==
    [r EXCEPT !.style_stack = Append(r.style_stack, r.current_style),
              !.current_style = StylePatch(r.current_style, style)]

\* pop_style restoring the oldest saved style instead of the newest
PopStyleOldest(r) ==
    IF r.style_stack = <<>> THEN r
    ELSE [r EXCEPT !.current_style = r.style_stack[1],
                   !.style_stack = Tail(r.style_stack)]

PopStyle(r) ==
    IF r.style_stack = <<>> THEN r
    ELSE [r EXCEPT !.current_style = r.style_stack[Len(r.style_stack)],
                   !.style_stack = SubSeq(r.style_stack, 1, Len(r.style_stack) - 1)]

\* The span of a word or a space, with its history fields filled in.
WordSpan(r, content, style, kind, seg) ==
    [content |-> content, style |-> style, kind |-> kind,
     link |-> IF r.active_link_url # <<>> THEN r.link_no ELSE 0,
     col |-> r.current_width, seg |-> seg]

\* Whether push_link_segment records the piece (its two early returns).
Recorded(r, label, width) == r.active_link_url # <<>> /\ label # <<>> /\ width # 0

\* Mutant: segments are recorded against line 0.
CurrentLineIndexFrozen(r) == 0

\* current_line_index
CurrentLineIndex(r) == Len(r.lines)

\* The test both push_link_segment and should_attach_space_to_active_link
\* make on the last segment.
LastSegmentAdjoins(r, col) ==
    /\ r.links # <<>>
    /\ LET last == r.links[Len(r.links)]
       IN  /\ last.url = r.active_link_url[1]
           /\ last.line = CurrentLineIndex(r)
           /\ last.col + last.width = col

\* Mutant: a segment is always pushed, never merged into the last one.
PushLinkSegmentNoMerge(r, label, col, width) ==
    IF r.active_link_url = <<>> THEN r
    ELSE IF label = <<>> \/ width = 0 THEN r
    ELSE [r EXCEPT !.links = Append(r.links,
              [line |-> CurrentLineIndex(r), col |-> col, label |-> label,
               url |-> r.active_link_url[1], width |-> width])]

\* push_link_segment
PushLinkSegment(r, label, col, width) ==
    IF r.active_link_url = <<>> THEN r
    ELSE IF label = <<>> \/ width = 0 THEN r
    ELSE IF LastSegmentAdjoins(r, col)
    THEN [r EXCEPT !.links[Len(r.links)].label = @ \o label,
                   !.links[Len(r.links)].width = @ + width]
    ELSE [r EXCEPT !.links = Append(r.links,
              [line |-> CurrentLineIndex(r), col |-> col, label |-> label,
               url |-> r.active_link_url[1], width |-> width])]

\* Mutant: a space is never attached to the open link.
NeverAttachSpace(r, space_col) == FALSE

\* Mutant: a space is attached whenever a link is open.
AttachSpaceWheneverLinkOpen(r, space_col) == r.active_link_url # <<>>

\* should_attach_space_to_active_link
ShouldAttachSpaceToActiveLink(r, space_col) ==
    r.active_link_url # <<>> /\ LastSegmentAdjoins(r, space_col)

\* textwrap::wrap(word, Options::new(available).break_words(true)) on a word
\* without whitespace or break opportunities: a fragment ends before the
\* first character that would take it past the width, unless it is empty.
RECURSIVE BreakApart(_, _, _, _)
BreakApart(rest, piece, width, line_width) ==
    IF rest = <<>> THEN (IF piece = <<>> THEN <<>> ELSE <<piece>>)
    ELSE LET w == CharWidth(Head(rest))
         IN  IF width > 0 /\ width + w > line_width
             THEN <<piece>> \o BreakApart(Tail(rest), <<Head(rest)>>, w, line_width)
             ELSE BreakApart(Tail(rest), Append(piece, Head(rest)), width + w, line_width)

\* One turn of push_long_word's loop without the flush between fragments
PushLongPartSameLine(r, idx, part, style) ==
    LET r2 == IF r.current_line = <<>> THEN StartLine(r) ELSE r
        part_width == DisplayWidth(part)
        r3 == [r2 EXCEPT !.current_line =
                             Append(@, WordSpan(r2, part, style, "long",
                                                Recorded(r2, part, part_width))),
                         !.current_width = @ + part_width]
    IN  PushLinkSegment(r3, part, r2.current_width, part_width)

\* One turn of push_long_word's loop.
PushLongPart(r, idx, part, style) ==
    LET r1 == IF idx > 1 THEN FlushLine(r) ELSE r
        r2 == IF r1.current_line = <<>> THEN StartLine(r1) ELSE r1
        link_start_col == r2.current_width
        part_width == DisplayWidth(part)
        r3 == [r2 EXCEPT !.current_line =
                             Append(@, WordSpan(r2, part, style, "long",
                                                Recorded(r2, part, part_width))),
                         !.current_width = @ + part_width]
    IN  PushLinkSegment(r3, part, link_start_col, part_width)

RECURSIVE PushLongParts(_, _, _, _)
PushLongParts(r, parts, idx, style) ==
    IF idx > Len(parts) THEN r
    ELSE PushLongParts(PushLongPart(r, idx, parts[idx], style), parts, idx + 1, style)

\* The width push_long_word hands to textwrap::wrap, without its floor of 1
LongWordAvailableUnclamped(r) == SatSub(r.max_width, PrefixWidth(r))

\* and with it.
LongWordAvailable(r) == Max(SatSub(r.max_width, PrefixWidth(r)), 1)

\* push_long_word
PushLongWord(r, word, style) ==
    PushLongParts(r, BreakApart(word, <<>>, 0, LongWordAvailable(r)), 1, style)

\* The plain branch of push_word, the word fits the budget, in the order of
\* the code: start a line when there is none,
PushWordStarted(r) == IF r.current_line = <<>> THEN StartLine(r) ELSE r

\* wrap when the space and the word do not fit after content,
PushWordWrapped(r1, space_width, word_width, prefix_width) ==
    IF /\ r1.current_width + space_width + word_width > r1.max_width
       /\ r1.current_width > prefix_width
    THEN StartLine(FlushLine(r1))
    ELSE r1

\* record the space span in the active link when it attaches,
PushSpaceSegment(spaced, space_col) ==
    IF ShouldAttachSpaceToActiveLink(spaced, space_col)
    THEN PushLinkSegment(spaced, <<" ">>, space_col, 1)
    ELSE spaced

\* the pending space pushed wherever the line stands
PushWordSpacedAnywhere(r2, prefix_width) ==
    IF r2.pending_space
    THEN PushSpaceSegment(
             [r2 EXCEPT !.current_line =
                            Append(@, WordSpan(r2, <<" ">>, StyleNew, "space",
                                ShouldAttachSpaceToActiveLink(r2, r2.current_width))),
                        !.current_width = @ + 1],
             r2.current_width)
    ELSE r2

\* push the pending space after content,
PushWordSpaced(r2, prefix_width) ==
    IF r2.pending_space /\ r2.current_width > prefix_width
    THEN PushSpaceSegment(
             [r2 EXCEPT !.current_line =
                            Append(@, WordSpan(r2, <<" ">>, StyleNew, "space",
                                ShouldAttachSpaceToActiveLink(r2, r2.current_width))),
                        !.current_width = @ + 1],
             r2.current_width)
    ELSE r2

\* and push the word and its link segment.
PushWordPlaced(r3, word, style, word_width) ==
    PushLinkSegment(
        [r3 EXCEPT !.pending_space = FALSE,
                   !.current_line =
                       Append(@, WordSpan(r3, word, style, "word",
                                          Recorded(r3, word, word_width))),
                   !.current_width = @ + word_width],
        word, r3.current_width, word_width)

SpaceWidth(r, prefix_width) ==
    IF r.pending_space /\ r.current_width > prefix_width THEN 1 ELSE 0

PushShortWord(r, word, style) ==
    PushWordPlaced(
        PushWordSpaced(
            PushWordWrapped(PushWordStarted(r), SpaceWidth(r, PrefixWidth(r)),
                            DisplayWidth(word), PrefixWidth(r)),
            PrefixWidth(r)),
        word, style, DisplayWidth(word))

\* push_word
PushWord(r, word, style) ==
    IF DisplayWidth(word) > SatSub(r.max_width, PrefixWidth(r))
    THEN [PushLongWord(r, word, style) EXCEPT !.pending_space = FALSE]
    ELSE PushShortWord(r, word, style)

\* push_text: the loop over the characters, with its word buffer.
RECURSIVE PushTextLoop(_, _, _, _)
\* The word in the buffer is pushed at a whitespace character and at the end
\* of the text;
PushBuffer(r, buffer, style) == IF buffer # <<>> THEN PushWord(r, buffer, style) ELSE r

\* Mutant: the loop ends at the first whitespace character.
PushTextAfterWordOnce(flushed, rest, style) == flushed

\* a line end then flushes the line, any other whitespace leaves a pending
\* space.
PushTextAfterWord(flushed, rest, style) ==
    IF rest = <<>> THEN flushed
    ELSE IF Head(rest) = "\n"
    THEN PushTextLoop(FlushLine(flushed), Tail(rest), <<>>, style)
    ELSE PushTextLoop([flushed EXCEPT !.pending_space = TRUE], Tail(rest), <<>>, style)

PushTextLoop(r, rest, buffer, style) ==
    IF rest = <<>> \/ IsWhitespace(Head(rest))
    THEN PushTextAfterWord(PushBuffer(r, buffer, style), rest, style)
    ELSE PushTextLoop(r, Tail(rest), Append(buffer, Head(rest)), style)

PushText(r, text, style) == PushTextLoop(r, text, <<>>, style)

(***************************************************************************)
(* Block quotes and admonitions.                                            *)
(***************************************************************************)
BoldFg(color) == [fg |-> color, mods |-> {"BOLD"}]

\* AdmonitionStyle::from_block_quote_kind
AdmonitionStyle(kind) ==
    CASE kind = "Note" ->
            [marker |-> <<"N", "O", "T", "E">>, default_title |-> <<"N", "o", "t", "e">>,
             border_color |-> "Blue", title_style |-> BoldFg("Blue")]
      [] kind = "Tip" ->
            [marker |-> <<"T", "I", "P">>, default_title |-> <<"T", "i", "p">>,
             border_color |-> "Green", title_style |-> BoldFg("Green")]
      [] kind = "Important" ->
            [marker |-> <<"I", "M", "P", "O", "R", "T", "A", "N", "T">>,
             default_title |-> <<"I", "m", "p", "o", "r", "t", "a", "n", "t">>,
             border_color |-> "Cyan", title_style |-> BoldFg("Cyan")]
      [] kind = "Warning" ->
            [marker |-> <<"W", "A", "R", "N", "I", "N", "G">>,
             default_title |-> <<"W", "a", "r", "n", "i", "n", "g">>,
             border_color |-> "Yellow", title_style |-> BoldFg("Yellow")]
      [] kind = "Caution" ->
            [marker |-> <<"C", "A", "U", "T", "I", "O", "N">>,
             default_title |-> <<"C", "a", "u", "t", "i", "o", "n">>,
             border_color |-> "Red", title_style |-> BoldFg("Red")]

\* push_admonition_header
PushAdmonitionHeader(r, title, style) ==
    LET r1 == StartLine(FlushLine(r))
        r2 == [r1 EXCEPT !.current_line = Append(@, Span(title, style.title_style, "title")),
                         !.current_width = @ + DisplayWidth(title)]
    IN  FlushLine(r2)

\* ensure_admonition_header
EnsureAdmonitionHeader(r) ==
    IF ~r.block_quote_title_pending THEN r
    ELSE LET r1 == IF r.block_quote_style # <<>>
                   THEN PushAdmonitionHeader(r, r.block_quote_style[1].default_title,
                                             r.block_quote_style[1])
                   ELSE r
         IN  [r1 EXCEPT !.block_quote_title_pending = FALSE]

\* str::trim_start / trim_end / trim
RECURSIVE TrimStart(_)
TrimStart(str) ==
    IF str # <<>> /\ IsWhitespace(Head(str)) THEN TrimStart(Tail(str)) ELSE str

RECURSIVE TrimEnd(_)
TrimEnd(str) ==
    IF str # <<>> /\ IsWhitespace(str[Len(str)])
    THEN TrimEnd(SubSeq(str, 1, Len(str) - 1)) ELSE str

Trim(str) == TrimEnd(TrimStart(str))

\* The UTF-8 length of a character: the wide and the zero-width character of
\* the alphabet are outside ASCII.
ByteLen(c) == IF c \in {WideGlyph, ZeroWidthChar, WideSpace} THEN 3 ELSE 1

RECURSIVE StrByteLen(_)
StrByteLen(str) == IF str = <<>> THEN 0 ELSE ByteLen(Head(str)) + StrByteLen(Tail(str))

LowerLetters == <<"a", "b", "c", "d", "e", "f", "g", "h", "i", "j", "k", "l", "m",
                  "n", "o", "p", "q", "r", "s", "t", "u", "v", "w", "x", "y", "z">>
UpperLetters == <<"A", "B", "C", "D", "E", "F", "G", "H", "I", "J", "K", "L", "M",
                  "N", "O", "P", "Q", "R", "S", "T", "U", "V", "W", "X", "Y", "Z">>

\* u8::to_ascii_uppercase
AsciiUpper(c) ==
    IF \E i \in 1..26 : LowerLetters[i] = c
    THEN UpperLetters[CHOOSE i \in 1..26 : LowerLetters[i] = c]
    ELSE c

EqIgnoreAsciiCase(a, b) ==
    Len(a) = Len(b) /\ \A i \in 1..Len(a) : AsciiUpper(a[i]) = AsciiUpper(b[i])

\* Mutant: the marker is compared case-sensitively.
ExtractAdmonitionTitleExactCase(text, marker) ==
    LET trimmed == TrimStart(text)
        marker_end == 2 + Len(marker)
    IN  IF Len(trimmed) < marker_end + 1 THEN <<>>
        ELSE IF SubSeq(trimmed, 1, marker_end + 1) # <<"[", "!">> \o marker \o <<"]">> THEN <<>>
        ELSE <<Trim(SubSeq(trimmed, marker_end + 2, Len(trimmed)))>>

\* extract_admonition_title, an Option.  The source indexes bytes: a match
\* needs "[", "!", the marker and "]" in the first 3 + len(marker) bytes, which
\* are then one-byte characters.
ExtractAdmonitionTitle(text, marker) ==
    LET trimmed == TrimStart(text)
        marker_end == 2 + Len(marker)
    IN  IF StrByteLen(trimmed) < Len(marker) + 3 THEN <<>>
        ELSE IF trimmed[1] # "[" THEN <<>>
        ELSE IF Len(trimmed) < 2 \/ trimmed[2] # "!" THEN <<>>
        ELSE IF Len(trimmed) < marker_end + 1 THEN <<>>
        ELSE IF \E i \in 1..(marker_end + 1) : ByteLen(trimmed[i]) # 1 THEN <<>>
        ELSE IF trimmed[marker_end + 1] # "]" THEN <<>>
        ELSE IF ~EqIgnoreAsciiCase(SubSeq(trimmed, 3, marker_end), marker) THEN <<>>
        ELSE <<Trim(SubSeq(trimmed, marker_end + 2, Len(trimmed)))>>

(***************************************************************************)
(* Code blocks.  The syntax set and the highlighter are syntect's; the      *)
(* model keeps two syntaxes and a highlighter that is a function of the     *)
(* syntax and the raw line.  A language token is [prefixed, name]:          *)
(* "language-rs" is [prefixed |-> TRUE, name |-> "rs"].                      *)
(***************************************************************************)
Token(name) == [prefixed |-> FALSE, name |-> name]
PrefixedToken(name) == [prefixed |-> TRUE, name |-> name]

\* A syntax of a SyntaxSet: its name, the lower-case tokens that equal its
\* name ignoring case, and its file extensions.
Syntax(name, names, extensions) == [name |-> name, names |-> names, extensions |-> extensions]
PlainTextSyntax == Syntax("Plain Text", {}, {Token("txt")})
RustSyntax == Syntax("Rust", {Token("rust")}, {Token("rs")})

\* The syntaxes of SyntaxSet::load_defaults_nonewlines, as far as the
\* alphabet of language tokens reaches.
DefaultSyntaxes == {PlainTextSyntax, RustSyntax}

\* SyntaxSet::find_syntax_by_extension and find_syntax_by_token (syntect):
\* the latter looks for the extension first, then for the name.  No two
\* syntaxes of a set of the model share a name token or an extension.
FindSyntaxByExtension(syntaxes, tok) ==
    LET found == {sx \in syntaxes : tok \in sx.extensions}
    IN  IF found = {} THEN <<>> ELSE <<(CHOOSE sx \in found : TRUE).name>>

FindSyntaxByToken(syntaxes, tok) ==
    LET by_name == {sx \in syntaxes : tok \in sx.names}
    IN  IF FindSyntaxByExtension(syntaxes, tok) # <<>> THEN FindSyntaxByExtension(syntaxes, tok)
        ELSE IF by_name = {} THEN <<>> ELSE <<(CHOOSE sx \in by_name : TRUE).name>>

\* str::strip_prefix("language-")
StripLanguagePrefix(tok) == IF tok.prefixed THEN <<Token(tok.name)>> ELSE <<>>

\* Mutant: the token without its prefix is looked up before the token.
ResolveSyntaxStrippedFirst(syntaxes, lang) ==
    IF lang = <<>> THEN "Plain Text"
    ELSE LET tok == lang[1]
             stripped == StripLanguagePrefix(tok)
         IN  IF stripped # <<>> /\ FindSyntaxByToken(syntaxes, stripped[1]) # <<>>
             THEN FindSyntaxByToken(syntaxes, stripped[1])[1]
             ELSE IF FindSyntaxByToken(syntaxes, tok) # <<>>
             THEN FindSyntaxByToken(syntaxes, tok)[1]
             ELSE IF FindSyntaxByExtension(syntaxes, tok) # <<>>
             THEN FindSyntaxByExtension(syntaxes, tok)[1]
             ELSE "Plain Text"

\* resolve_syntax
ResolveSyntax(syntaxes, lang) ==
    IF lang = <<>> THEN "Plain Text"
    ELSE LET tok == lang[1]
             stripped == StripLanguagePrefix(tok)
         IN  IF FindSyntaxByToken(syntaxes, tok) # <<>>
             THEN FindSyntaxByToken(syntaxes, tok)[1]
             ELSE IF stripped # <<>> /\ FindSyntaxByToken(syntaxes, stripped[1]) # <<>>
             THEN FindSyntaxByToken(syntaxes, stripped[1])[1]
             ELSE IF FindSyntaxByExtension(syntaxes, tok) # <<>>
             THEN FindSyntaxByExtension(syntaxes, tok)[1]
             ELSE "Plain Text"

\* What the initialiser of SYNTECT_ASSETS loads.
DefaultAssets == [syntaxes |-> "defaults-nonewlines", theme |-> "base16-ocean.dark"]

\* Mutant: once the cell is initialised, the assets are loaded again with
\* another theme.
SyntectAssetsReloaded ==
    IF rs.assets = <<>> THEN DefaultAssets
    ELSE [DefaultAssets EXCEPT !.theme = "InspiredGitHub"]

\* syntect_assets: OnceLock::get_or_init on the process-wide cell rs.assets
SyntectAssets == IF rs.assets = <<>> THEN DefaultAssets ELSE rs.assets[1]

\* syntect_style_to_ratatui applied to the theme's style for a character:
\* the colour is the theme's for the character's scope.
CodeStyle(syntax, c) ==
    IF syntax = "Rust" /\ c = "f"
    THEN [fg |-> <<"Rgb", SyntectAssets.theme, "keyword">>, mods |-> {"BOLD"}]
    ELSE [fg |-> <<"Rgb", SyntectAssets.theme, "text">>, mods |-> {}]

FallbackStyle == [fg |-> "LightYellow", mods |-> {}]

\* The regions of a line: maximal runs of one character for the Rust syntax,
\* the whole line for plain text.
RECURSIVE Runs(_, _)
Runs(rest, run) ==
    IF rest = <<>> THEN (IF run = <<>> THEN <<>> ELSE <<run>>)
    ELSE IF run = <<>> \/ Head(rest) = run[1] THEN Runs(Tail(rest), Append(run, Head(rest)))
    ELSE <<run>> \o Runs(Tail(rest), <<Head(rest)>>)

\* HighlightLines::highlight_line: Ok(regions) or Err.  The lines that fail
\* are those of the Rust syntax that hold a "!".
HighlightLine(syntax, raw_line) ==
    IF syntax = "Rust" /\ \E i \in 1..Len(raw_line) : raw_line[i] = "!"
    THEN [ok |-> FALSE, regions |-> <<>>]
    ELSE IF syntax = "Rust"
    THEN [ok |-> TRUE,
          regions |-> LET runs == Runs(raw_line, <<>>)
                      IN  [i \in 1..Len(runs) |->
                              [style |-> CodeStyle(syntax, runs[i][1]), fragment |-> runs[i]]]]
    ELSE [ok |-> TRUE,
          regions |-> <<[style |-> CodeStyle(syntax, " "), fragment |-> raw_line]>>]

\* str::split('\n')
RECURSIVE SplitLines(_, _)
SplitLines(rest, line) ==
    IF rest = <<>> THEN <<line>>
    ELSE IF Head(rest) = "\n" THEN <<line>> \o SplitLines(Tail(rest), <<>>)
    ELSE SplitLines(Tail(rest), Append(line, Head(rest)))

RECURSIVE PushRegions(_, _, _)
PushRegions(r, regions, i) ==
    IF i > Len(regions) THEN r
    ELSE IF regions[i].fragment = <<>> THEN PushRegions(r, regions, i + 1)
    ELSE PushRegions(
             [r EXCEPT !.current_line = Append(@, Span(regions[i].fragment, regions[i].style, "code")),
                       !.current_width = @ + DisplayWidth(regions[i].fragment)],
             regions, i + 1)

\* What highlight_line returns for a line of this render.
HighlightOutcome(r, syntax, raw_line) ==
    IF raw_line \in r.failing THEN [ok |-> FALSE, regions |-> <<>>]
    ELSE HighlightLine(syntax, raw_line)

\* The Err arm of the match in render_code_block
PushFallback(r1, raw_line) ==
    IF raw_line # <<>>
    THEN [r1 EXCEPT !.current_line = Append(@, Span(raw_line, FallbackStyle, "code")),
                    !.current_width = @ + DisplayWidth(raw_line)]
    ELSE r1

\* and the match, without its Err arm: the line is left as it is
PushHighlightedOrNothing(r1, h, raw_line) ==
    IF h.ok THEN PushRegions(r1, h.regions, 1) ELSE r1

\* and with it.
PushHighlighted(r1, h, raw_line) ==
    IF h.ok THEN PushRegions(r1, h.regions, 1) ELSE PushFallback(r1, raw_line)

\* One turn of render_code_block's loop over the raw lines without the
\* flush that ends it
RenderCodeLineUnflushed(r, syntax, raw_line) ==
    PushHighlighted(StartLine(FlushLine(r)), HighlightOutcome(r, syntax, raw_line), raw_line)

\* and the whole turn.
RenderCodeLine(r, syntax, raw_line) ==
    FlushLine(PushHighlighted(StartLine(FlushLine(r)),
                              HighlightOutcome(r, syntax, raw_line), raw_line))

RECURSIVE RenderCodeLines(_, _, _, _)
RenderCodeLines(r, syntax, raw_lines, i) ==
    IF i > Len(raw_lines) THEN r
    ELSE RenderCodeLines(RenderCodeLine(r, syntax, raw_lines[i]), syntax, raw_lines, i + 1)

\* render_code_block
RenderCodeBlock(r) ==
    IF r.code_block_buf = <<>> THEN r
    ELSE RenderCodeLines([r EXCEPT !.code_block_buf = <<>>],
                         ResolveSyntax(DefaultSyntaxes, r.code_block_lang),
                         SplitLines(r.code_block_buf, <<>>), 1)

(***************************************************************************)
(* The event handlers.  A tag is a record [t |-> name, ...].                *)
(***************************************************************************)
StyleTags == {"Emphasis", "Strong", "Strikethrough", "Superscript", "Subscript"}

TagStyle(t) ==
    CASE t \in {"Emphasis", "Superscript", "Subscript"} -> [fg |-> "None", mods |-> {"ITALIC"}]
      [] t \in {"Strong", "Heading"} -> [fg |-> "None", mods |-> {"BOLD"}]
      [] t = "Strikethrough" -> [fg |-> "None", mods |-> {"CROSSED_OUT"}]
      [] t = "Link" -> [fg |-> "Blue", mods |-> {"UNDERLINED"}]

\* start_tag
StartTag(r, tag) ==
    CASE tag.t \in StyleTags \cup {"Heading"} -> PushStyle(r, TagStyle(tag.t))
      [] tag.t = "Link" ->
            PushStyle([r EXCEPT !.active_link_url = <<tag.url>>], TagStyle("Link"))
      [] tag.t = "BlockQuote" ->
            LET style == IF tag.kind = <<>> THEN <<>> ELSE <<AdmonitionStyle(tag.kind[1])>>
            IN  [FlushLine(r) EXCEPT !.in_block_quote = TRUE,
                                     !.block_quote_style = style,
                                     !.block_quote_title_pending = (style # <<>>)]
      [] tag.t = "CodeBlock" ->
            [FlushLine(EnsureAdmonitionHeader(r)) EXCEPT !.in_code_block = TRUE,
                                                         !.code_block_lang = tag.lang,
                                                         !.code_block_buf = <<>>]
      [] tag.t = "Item" -> [FlushLine(r) EXCEPT !.list_prefix = <<ListPrefixText>>]
      [] OTHER -> r

\* end_tag
EndTag(r, tag) ==
    CASE tag.t \in StyleTags -> PopStyle(r)
      [] tag.t = "Link" -> PopStyle([r EXCEPT !.active_link_url = <<>>])
      [] tag.t = "Heading" -> FlushLine(PopStyle(r))
      [] tag.t = "BlockQuote" ->
            PushBlankLine([FlushLine(r) EXCEPT !.in_block_quote = FALSE,
                                               !.block_quote_style = <<>>,
                                               !.block_quote_title_pending = FALSE])
      [] tag.t = "CodeBlock" ->
            PushBlankLine([FlushLine(RenderCodeBlock(r)) EXCEPT !.in_code_block = FALSE,
                                                                !.code_block_lang = <<>>,
                                                                !.code_block_buf = <<>>])
      [] tag.t = "Item" -> [FlushLine(r) EXCEPT !.list_prefix = <<>>]
      [] tag.t = "Paragraph" -> PushBlankLine(FlushLine(r))
      [] OTHER -> r

\* text
Text(r, text) ==
    LET titled == r.in_block_quote /\ r.block_quote_title_pending
        title == IF titled /\ r.block_quote_style # <<>>
                 THEN ExtractAdmonitionTitle(text, r.block_quote_style[1].marker)
                 ELSE <<>>
    IN  IF title # <<>>
        THEN [PushAdmonitionHeader(r,
                  IF title[1] = <<>> THEN r.block_quote_style[1].default_title ELSE title[1],
                  r.block_quote_style[1])
              EXCEPT !.block_quote_title_pending = FALSE]
        ELSE LET r1 == IF titled THEN EnsureAdmonitionHeader(r) ELSE r
             IN  IF r1.in_code_block
                 THEN [r1 EXCEPT !.code_block_buf = @ \o text]
                 ELSE PushText(r1, text, r1.current_style)

\* inline_code
InlineCode(r, text) ==
    LET r1 == EnsureAdmonitionHeader(r)
    IN  PushText(r1, text, StylePatch(r1.current_style, [fg |-> "Yellow", mods |-> {"BOLD"}]))

\* inline_math
InlineMath(r, text) ==
    LET r1 == EnsureAdmonitionHeader(r)
    IN  PushText(r1, text, StylePatch(r1.current_style, [fg |-> "LightMagenta", mods |-> {"ITALIC"}]))

\* soft_break
SoftBreak(r) ==
    LET r1 == EnsureAdmonitionHeader(r)
    IN  IF r1.in_code_block THEN [r1 EXCEPT !.code_block_buf = Append(@, "\n")]
        ELSE [r1 EXCEPT !.pending_space = TRUE]

\* hard_break
HardBreak(r) ==
    LET r1 == EnsureAdmonitionHeader(r)
    IN  IF r1.in_code_block THEN [r1 EXCEPT !.code_block_buf = Append(@, "\n")]
        ELSE FlushLine(r1)

\* task_list_marker
TaskListMarker(r, checked) ==
    LET r1 == EnsureAdmonitionHeader(r)
        marker == IF checked THEN <<"[", "x", "]", " ">> ELSE <<"[", " ", "]", " ">>
    IN  PushText(r1, marker, r1.current_style)

\* rule
Rule(r) ==
    LET r1 == StartLine(FlushLine(r))
        width == Max(SatSub(r1.max_width, PrefixWidth(r1)), MinRuleWidth)
        bar == RepeatStr(RuleGlyph, width)
        r2 == [r1 EXCEPT !.current_line = Append(@, Span(bar, [fg |-> "DarkGray", mods |-> {}], "rule")),
                         !.current_width = @ + DisplayWidth(bar)]
    IN  PushBlankLine(FlushLine(r2))

\* Mutant: the line under construction is not flushed.
FinishWithoutFlush(r) ==
    [lines |-> IF r.lines = <<>> THEN << <<Span(<<>>, StyleNew, "empty")>> >> ELSE r.lines,
     links |-> r.links]

\* finish: the document returned
RECURSIVE DropTrailingBlank(_)
DropTrailingBlank(lines) ==
    IF lines # <<>> /\ lines[Len(lines)] = <<>>
    THEN DropTrailingBlank(SubSeq(lines, 1, Len(lines) - 1))
    ELSE lines

Finish(r) ==
    LET r1 == FlushLine(r)
        kept == DropTrailingBlank(r1.lines)
    IN  [lines |-> IF kept = <<>> THEN << <<Span(<<>>, StyleNew, "empty")>> >> ELSE kept,
         links |-> r1.links]

(***************************************************************************)
(* render_markdown, one event at a time.  md.r is the renderer, md.width    *)
(* and md.indent the caller's arguments, md.n the number of events handled, *)
(* md.last the kind of the last event, md.doc the document finish returned. *)
(* The parser's guarantees are guards: a Text event never follows a Text    *)
(* event (TextMergeStream), links do not nest, the text that opens a        *)
(* paragraph does not start with whitespace.  The remaining fields are      *)
(* history: gtext the text handed over so far, ltext the text handed over   *)
(* inside links, lurls the urls of the links by ordinal, plain whether only *)
(* text, raw html and link events have happened.                            *)
(***************************************************************************)
Url2 == <<"v">>
Urls == {Url1, Url2}

TextAb == <<"a", "b">>
TextSpCd == <<" ", "c", "d">>
TextZw == <<ZeroWidthChar>>
TextSp == <<" ">>
TextTen == <<"a", "b", "c", "d", "e", "f", "g", "h", "i", "j">>
TextTwoWords == <<"a", "b", "c", "d", "e", "f", " ", "g", "h", "i", "j", "k">>
TextLong == <<"a", "b", "c", "d", "e", "f", "g", "h", "i", "j", "k", "l", "m">>
InlineTexts == {TextAb, TextSpCd, TextZw, TextSp, TextTen, TextTwoWords, TextLong}
HtmlText == <<"<", "b", ">">>

\* The (width, indent) pairs render_markdown is called with.
Configs == {[width |-> 8, indent |-> 0], [width |-> 12, indent |-> 2]}

MdStart(cfg) ==
    [started |-> TRUE, r |-> RendererNew(cfg.width, cfg.indent),
     width |-> cfg.width, indent |-> cfg.indent,
     n |-> 0, last |-> "None", done |-> FALSE, doc |-> <<>>,
     gtext |-> <<>>, ltext |-> <<>>, lurls |-> <<>>, plain |-> TRUE]

InitMd ==
    /\ tr = NoTruncCall
    /\ lk = NoLinkRender
    /\ rs = NoRenders
    /\ \E cfg \in Configs : md = MdStart(cfg)

MdReady == md.started /\ ~md.done /\ md.n < MaxEvents
LinkOpen == md.r.active_link_url # <<>>

\* What an event leaves in the history fields.
MdAfter(r, kind, text, plain) ==
    [md EXCEPT !.r = r, !.n = @ + 1, !.last = kind,
               !.gtext = @ \o text,
               !.ltext = IF LinkOpen THEN @ \o text ELSE @,
               !.plain = @ /\ plain]

\* MdEvent::Text
MdText ==
    /\ MdReady /\ md.last # "Text"
    /\ \E t \in InlineTexts :
          /\ md.n = 0 => ~IsWhitespace(t[1])
          /\ md' = MdAfter(Text(md.r, t), "Text", t, TRUE)
    /\ UNCHANGED <<tr, lk, rs>>

\* MdEvent::InlineHtml
MdInlineHtml ==
    /\ MdReady /\ md.last # "Html"
    /\ md' = MdAfter(Text(md.r, HtmlText), "Html", HtmlText, TRUE)
    /\ UNCHANGED <<tr, lk, rs>>

\* MdEvent::Start(Tag::Link)
MdStartLink ==
    /\ MdReady /\ ~LinkOpen
    /\ \E url \in Urls :
          md' = [MdAfter([StartTag(md.r, [t |-> "Link", url |-> url])
                             EXCEPT !.link_no = @ + 1],
                         "StartLink", <<>>, TRUE)
                 EXCEPT !.lurls = Append(@, url), !.ltext = <<>>]
    /\ UNCHANGED <<tr, lk, rs>>

\* MdEvent::End(TagEnd::Link)
MdEndLink ==
    /\ MdReady /\ LinkOpen
    /\ md' = MdAfter(EndTag(md.r, [t |-> "Link"]), "EndLink", <<>>, TRUE)
    /\ UNCHANGED <<tr, lk, rs>>

\* MdEvent::SoftBreak: between two inline events of a paragraph
MdSoftBreak ==
    /\ MdReady /\ md.last \in {"Text", "Html", "EndLink"}
    /\ md' = MdAfter(SoftBreak(md.r), "SoftBreak", <<"\n">>, FALSE)
    /\ UNCHANGED <<tr, lk, rs>>

\* MdEvent::HardBreak
MdHardBreak ==
    /\ MdReady /\ md.last \in {"Text", "Html", "EndLink"}
    /\ md' = MdAfter(HardBreak(md.r), "HardBreak", <<"\n">>, FALSE)
    /\ UNCHANGED <<tr, lk, rs>>

\* The end of the event stream: End(Paragraph), then renderer.finish().
MdFinish ==
    /\ md.started /\ ~md.done /\ ~LinkOpen /\ md.n > 0
    /\ md.last \notin {"SoftBreak", "HardBreak"}
    /\ md' = [md EXCEPT !.done = TRUE,
                        !.doc = <<Finish(EndTag(md.r, [t |-> "Paragraph"]))>>]
    /\ UNCHANGED <<tr, lk, rs>>

NextMd ==
    \/ MdText
    \/ MdInlineHtml
    \/ MdStartLink
    \/ MdEndLink
    \/ MdSoftBreak
    \/ MdHardBreak
    \/ MdFinish

SpecMd == InitMd /\ [][NextMd]_vars

(***************************************************************************)
(* Claims about link segments and spacing.                                  *)
(***************************************************************************)
\* The lines written so far, the one under construction included; a
\* segment's line field is an index into them, counted from 0.
AllLines(r) == IF r.current_line = <<>> THEN r.lines ELSE Append(r.lines, r.current_line)

SpanWidth(sp) == DisplayWidth(sp.content)

RECURSIVE LineText(_)
LineText(line) == IF line = <<>> THEN <<>> ELSE Head(line).content \o LineText(Tail(line))

LineWidth(line) == DisplayWidth(LineText(line))

\* str::split_whitespace, and the words joined by single spaces.
RECURSIVE Words(_, _)
Words(rest, word) ==
    IF rest = <<>> THEN (IF word = <<>> THEN <<>> ELSE <<word>>)
    ELSE IF IsWhitespace(Head(rest))
    THEN (IF word = <<>> THEN <<>> ELSE <<word>>) \o Words(Tail(rest), <<>>)
    ELSE Words(Tail(rest), Append(word, Head(rest)))

RECURSIVE JoinWords(_)
JoinWords(words) ==
    IF words = <<>> THEN <<>>
    ELSE IF Len(words) = 1 THEN words[1]
    ELSE words[1] \o <<" ">> \o JoinWords(Tail(words))

Links == md.r.links
SegmentIndexes == 1..Len(Links)
IsLabelWord(sp, k) == sp.link = k /\ sp.kind \in {"word", "long"}
LinesOf(r) == 1..Len(AllLines(r))
SpansOf(r, i) == 1..Len(AllLines(r)[i])
SpanAt(r, i, j) == AllLines(r)[i][j]

\* The lines that hold a word of link k, and those that hold one with cells.
LabelLines(r, k) ==
    {i \in LinesOf(r) : \E j \in SpansOf(r, i) : IsLabelWord(SpanAt(r, i, j), k)}
LabelCellLines(r, k) ==
    {i \in LinesOf(r) : \E j \in SpansOf(r, i) :
        IsLabelWord(SpanAt(r, i, j), k) /\ SpanWidth(SpanAt(r, i, j)) > 0}
LabelWordsHaveCells(r, k) ==
    \A i \in LinesOf(r) : \A j \in SpansOf(r, i) :
        IsLabelWord(SpanAt(r, i, j), k) => SpanWidth(SpanAt(r, i, j)) > 0

OneLinkClosed == md.started /\ md.r.link_no = 1 /\ ~LinkOpen

\* Every segment covers recorded spans of its own line, and the link that
\* was open when each of them was pushed has the segment's url.
SegmentsCarryUrl ==
    md.started =>
        \A n \in SegmentIndexes :
            LET s == Links[n]
                covered == {j \in SpansOf(md.r, s.line + 1) :
                               /\ SpanAt(md.r, s.line + 1, j).seg
                               /\ SpanAt(md.r, s.line + 1, j).col >= s.col
                               /\ SpanAt(md.r, s.line + 1, j).col < s.col + s.width}
            IN  /\ s.line + 1 \in LinesOf(md.r)
                /\ covered # {}
                /\ \A j \in covered : md.lurls[SpanAt(md.r, s.line + 1, j).link] = s.url

\* C2: a single link whose label lies on one line is recorded as exactly one
\* segment, whose label is the link text with its words joined by single
\* spaces and whose url is the destination; every segment carries the url of
\* the link that was open when it was recorded.
C2_SingleLinkOneSegment ==
    /\ (OneLinkClosed /\ Cardinality(LabelLines(md.r, 1)) = 1) =>
          /\ Len(Links) = 1
          /\ Links[1].label = JoinWords(Words(md.ltext, <<>>))
          /\ Links[1].url = md.lurls[1]
    /\ SegmentsCarryUrl

\* C2 as the code has it: the one segment exists when some word of the label
\* has cells, the label is the joined text when every word has cells, and a
\* label of zero-width words alone leaves no segment.
C2_SingleLinkOneSegmentWithCells ==
    /\ (OneLinkClosed /\ Cardinality(LabelLines(md.r, 1)) = 1) =>
          /\ LabelCellLines(md.r, 1) # {} =>
                (Len(Links) = 1 /\ Links[1].url = md.lurls[1])
          /\ LabelWordsHaveCells(md.r, 1) =>
                (Len(Links) = 1 /\ Links[1].label = JoinWords(Words(md.ltext, <<>>)))
          /\ LabelCellLines(md.r, 1) = {} => Links = <<>>
    /\ SegmentsCarryUrl

\* A closed single link of several words on one line, with its one segment.
C2_Witness ==
    /\ OneLinkClosed /\ Cardinality(LabelLines(md.r, 1)) = 1
    /\ LabelWordsHaveCells(md.r, 1)
    /\ Len(Words(md.ltext, <<>>)) >= 2
    /\ Len(Links) = 1

\* The first and the last cell of link k's words on line i.
LabelStart(r, k, i) ==
    CHOOSE c \in 0..LineWidth(AllLines(r)[i]) + BorderWidth :
        /\ \E j \in SpansOf(r, i) :
              IsLabelWord(SpanAt(r, i, j), k) /\ SpanWidth(SpanAt(r, i, j)) > 0
              /\ SpanAt(r, i, j).col = c
        /\ \A j \in SpansOf(r, i) :
              (IsLabelWord(SpanAt(r, i, j), k) /\ SpanWidth(SpanAt(r, i, j)) > 0)
              => SpanAt(r, i, j).col >= c
LabelEnd(r, k, i) ==
    CHOOSE c \in 0..LineWidth(AllLines(r)[i]) + BorderWidth :
        /\ \E j \in SpansOf(r, i) :
              IsLabelWord(SpanAt(r, i, j), k) /\ SpanWidth(SpanAt(r, i, j)) > 0
              /\ SpanAt(r, i, j).col + SpanWidth(SpanAt(r, i, j)) = c
        /\ \A j \in SpansOf(r, i) :
              (IsLabelWord(SpanAt(r, i, j), k) /\ SpanWidth(SpanAt(r, i, j)) > 0)
              => SpanAt(r, i, j).col + SpanWidth(SpanAt(r, i, j)) <= c

\* One segment per line of the set, each running from the label's first cell
\* on its line over its last, every cell of it a recorded span's.
OneSegmentPerLine(lines) ==
    /\ Len(Links) = Cardinality(lines)
    /\ {Links[n].line + 1 : n \in SegmentIndexes} = lines
    /\ \A n \in SegmentIndexes :
          /\ Links[n].url = md.lurls[1]
          /\ Links[n].line + 1 \in LabelCellLines(md.r, 1) =>
                /\ Links[n].col = LabelStart(md.r, 1, Links[n].line + 1)
                /\ Links[n].col + Links[n].width >= LabelEnd(md.r, 1, Links[n].line + 1)
                /\ \A c \in Links[n].col..(Links[n].col + Links[n].width - 1) :
                      \E j \in SpansOf(md.r, Links[n].line + 1) :
                          /\ SpanAt(md.r, Links[n].line + 1, j).seg
                          /\ SpanAt(md.r, Links[n].line + 1, j).col <= c
                          /\ c < SpanAt(md.r, Links[n].line + 1, j).col
                                    + SpanWidth(SpanAt(md.r, Links[n].line + 1, j))

\* C3: a link label that wraps yields at least two segments, one per line
\* the label occupies, all with the link's url, each a gap-free chain.
C3_WrappedLabelSegments ==
    (OneLinkClosed /\ Cardinality(LabelLines(md.r, 1)) >= 2) =>
        (Len(Links) >= 2 /\ OneSegmentPerLine(LabelLines(md.r, 1)))

\* C3 as the code has it: the lines that count are those where the label
\* has a word with cells.
C3_WrappedLabelSegmentsWithCells ==
    (OneLinkClosed /\ Cardinality(LabelCellLines(md.r, 1)) >= 2) =>
        (Len(Links) >= 2 /\ OneSegmentPerLine(LabelCellLines(md.r, 1)))

\* A closed link whose label wrapped, one of its lines holding two words.
C3_Witness ==
    /\ OneLinkClosed /\ Cardinality(LabelCellLines(md.r, 1)) >= 2
    /\ \E n \in SegmentIndexes : \E c \in 1..Len(Links[n].label) : Links[n].label[c] = " "

IsSpace(sp) == sp.kind = "space"

\* The span that holds the cell left of column c on line i, if any.
LeftNeighbours(r, i, c) ==
    {j \in SpansOf(r, i) :
        SpanWidth(SpanAt(r, i, j)) > 0
        /\ SpanAt(r, i, j).col + SpanWidth(SpanAt(r, i, j)) = c}

\* A space is in a segment only if the cell to its left is in a segment of
\* the same url.
AttachedSpaceAdjoinsLink ==
    \A i \in LinesOf(md.r) : \A j \in SpansOf(md.r, i) :
        (IsSpace(SpanAt(md.r, i, j)) /\ SpanAt(md.r, i, j).seg) =>
            \E p \in LeftNeighbours(md.r, i, SpanAt(md.r, i, j).col) :
                /\ SpanAt(md.r, i, p).seg
                /\ md.lurls[SpanAt(md.r, i, p).link] = md.lurls[SpanAt(md.r, i, j).link]

\* A space between plain words is in no segment.
PlainSpaceUnattached ==
    \A i \in LinesOf(md.r) : \A j \in SpansOf(md.r, i) :
        (IsSpace(SpanAt(md.r, i, j)) /\ SpanAt(md.r, i, j).link = 0) => ~SpanAt(md.r, i, j).seg

\* A space before the first word of a link is in no segment: a space in a
\* segment follows a span of its own link.
SpaceBeforeLinkUnattached ==
    \A i \in LinesOf(md.r) : \A j \in SpansOf(md.r, i) :
        (IsSpace(SpanAt(md.r, i, j)) /\ SpanAt(md.r, i, j).seg) =>
            (j > 1 /\ SpanAt(md.r, i, j - 1).link = SpanAt(md.r, i, j).link)

NoLabelBeginsWithSpace == \A n \in SegmentIndexes : Links[n].label[1] # " "
NoLabelEndsWithSpace == \A n \in SegmentIndexes : Links[n].label[Len(Links[n].label)] # " "

\* A label ends with a space only before a zero-width word.
LabelEndsWithSpaceBeforeZeroWidth ==
    \A n \in SegmentIndexes :
        Links[n].label[Len(Links[n].label)] = " " =>
            \E j \in SpansOf(md.r, Links[n].line + 1) :
                /\ SpanAt(md.r, Links[n].line + 1, j).kind = "word"
                /\ SpanWidth(SpanAt(md.r, Links[n].line + 1, j)) = 0
                /\ SpanAt(md.r, Links[n].line + 1, j).col = Links[n].col + Links[n].width

\* C4: a space joins a segment only when the cell to its left is in a
\* segment of the active url; a space between plain words or before a
\* link's first word is in no segment; no label begins or ends with a space.
C4_SpaceAttachment ==
    md.started =>
        /\ AttachedSpaceAdjoinsLink
        /\ PlainSpaceUnattached
        /\ SpaceBeforeLinkUnattached
        /\ NoLabelBeginsWithSpace
        /\ NoLabelEndsWithSpace

\* C4 as the code has it: the space before a link's first word joins the
\* segment of an adjoining link to the same url, and a label ends with a
\* space when only zero-width words follow it.
C4_SpaceAttachmentByAdjacency ==
    md.started =>
        /\ AttachedSpaceAdjoinsLink
        /\ PlainSpaceUnattached
        /\ NoLabelBeginsWithSpace
        /\ LabelEndsWithSpaceBeforeZeroWidth

\* A line with a space that joined a segment and a space that did not.
C4_Witness ==
    /\ md.started
    /\ \E i \in LinesOf(md.r) : \E j, k \in SpansOf(md.r, i) :
          /\ IsSpace(SpanAt(md.r, i, j)) /\ SpanAt(md.r, i, j).seg
          /\ IsSpace(SpanAt(md.r, i, k)) /\ ~SpanAt(md.r, i, k).seg

\* The paragraph of C5: text, raw html and links only, the words separated
\* by single spaces, the whole no wider than the caller's width, indent 0.
SingleSpaced(text) == text # <<>> /\ text = JoinWords(Words(text, <<>>))
FittingParagraph ==
    /\ md.started /\ md.done /\ md.plain /\ md.indent = 0
    /\ SingleSpaced(md.gtext)
    /\ DisplayWidth(md.gtext) <= md.width

\* C5: such a paragraph renders as one line whose text is the input.
C5_OneLineParagraphText ==
    FittingParagraph =>
        (Len(md.doc[1].lines) = 1 /\ LineText(md.doc[1].lines[1]) = md.gtext)

\* C6: no two consecutive segments share a url, lie on one line and are
\* column-adjacent.
C6_AdjacentSegmentsMerged ==
    md.started =>
        \A n \in SegmentIndexes :
            n > 1 => ~(/\ Links[n - 1].url = Links[n].url
                       /\ Links[n - 1].line = Links[n].line
                       /\ Links[n - 1].col + Links[n - 1].width = Links[n].col)

\* A segment put together from the words of two links to one url.
C6_Witness ==
    /\ md.started /\ md.r.link_no = 2 /\ Len(Links) = 1
    /\ \E i \in LinesOf(md.r) : \E j, k \in SpansOf(md.r, i) :
          /\ SpanAt(md.r, i, j).seg /\ SpanAt(md.r, i, j).link = 1
          /\ SpanAt(md.r, i, k).seg /\ SpanAt(md.r, i, k).link = 2

(***************************************************************************)
(* Block structure, one event at a time: paragraphs, block quotes and       *)
(* admonitions, list items, rules and code blocks.  md.open is the stack of *)
(* open containers, md.para whether a paragraph is open.                    *)
(***************************************************************************)
TextWrap == <<"a", "b", " ", "c", "d", "e", "f", "g", "h", "i", " ", "j", "k">>
TextNoteTitle == <<"[", "!", "N", "O", "T", "E", "]", " ">> \o TextLong
BlockTexts == {TextAb, TextWrap, TextLong, TextNoteTitle}
CodeTexts == {<<"a", "b", "\n", "f", "f">>, TextLong, <<"f", "!">>}
LangRs == <<[prefixed |-> FALSE, name |-> "rs"]>>
CodeLangs == {<<>>, LangRs}
QuoteKinds == {<<>>, <<"Note">>, <<"Important">>}

InitMdBlock ==
    /\ tr = NoTruncCall
    /\ lk = NoLinkRender
    /\ rs = NoRenders
    /\ \E cfg \in Configs :
          md = [started |-> TRUE, r |-> RendererNew(cfg.width, cfg.indent),
                width |-> cfg.width, indent |-> cfg.indent,
                n |-> 0, last |-> "None", done |-> FALSE, doc |-> <<>>,
                open |-> <<>>, para |-> FALSE]

Top == IF md.open = <<>> THEN "None" ELSE md.open[Len(md.open)]
InCode == Top = "Code"
BlockReady == MdReady /\ ~md.para /\ ~InCode
Pop(stack) == SubSeq(stack, 1, Len(stack) - 1)

MbAfter(r, kind) == [md EXCEPT !.r = r, !.n = @ + 1, !.last = kind]

\* MdEvent::Text in a paragraph or a tight list item
MbText ==
    /\ MdReady /\ ~InCode /\ md.last # "Text"
    /\ \E t \in BlockTexts :
          md' = [MbAfter(Text(md.r, t), "Text") EXCEPT !.para = TRUE]
    /\ UNCHANGED <<tr, lk, rs>>

\* MdEvent::Html: a line of an html block, outside any paragraph; the last
\* line of the input has no line end
MbHtml ==
    /\ BlockReady /\ md.last # "Html"
    /\ md' = MbAfter(Text(md.r, HtmlText), "Html")
    /\ UNCHANGED <<tr, lk, rs>>

\* MdEvent::End(TagEnd::Paragraph)
MbEndParagraph ==
    /\ MdReady /\ md.para
    /\ md' = [MbAfter(EndTag(md.r, [t |-> "Paragraph"]), "EndParagraph") EXCEPT !.para = FALSE]
    /\ UNCHANGED <<tr, lk, rs>>

\* MdEvent::Start(Tag::BlockQuote)
MbStartBlockQuote ==
    /\ BlockReady
    /\ \E kind \in QuoteKinds :
          md' = [MbAfter(StartTag(md.r, [t |-> "BlockQuote", kind |-> kind]), "StartBlockQuote")
                 EXCEPT !.open = Append(@, "Quote")]
    /\ UNCHANGED <<tr, lk, rs>>

\* MdEvent::End(TagEnd::BlockQuote)
MbEndBlockQuote ==
    /\ BlockReady /\ Top = "Quote"
    /\ md' = [MbAfter(EndTag(md.r, [t |-> "BlockQuote"]), "EndBlockQuote")
              EXCEPT !.open = Pop(@)]
    /\ UNCHANGED <<tr, lk, rs>>

\* MdEvent::Start(Tag::Item)
MbStartItem ==
    /\ BlockReady /\ Top # "Item"
    /\ md' = [MbAfter(StartTag(md.r, [t |-> "Item"]), "StartItem")
              EXCEPT !.open = Append(@, "Item")]
    /\ UNCHANGED <<tr, lk, rs>>

\* MdEvent::TaskListMarker, the first event of its item
MbTaskListMarker ==
    /\ MdReady /\ md.last = "StartItem"
    /\ \E checked \in BOOLEAN :
          md' = MbAfter(TaskListMarker(md.r, checked), "TaskListMarker")
    /\ UNCHANGED <<tr, lk, rs>>

\* MdEvent::End(TagEnd::Item): a tight item ends with its text
MbEndItem ==
    /\ MdReady /\ Top = "Item"
    /\ md' = [MbAfter(EndTag(md.r, [t |-> "Item"]), "EndItem")
              EXCEPT !.open = Pop(@), !.para = FALSE]
    /\ UNCHANGED <<tr, lk, rs>>

\* MdEvent::Rule
MbRule ==
    /\ BlockReady
    /\ md' = MbAfter(Rule(md.r), "Rule")
    /\ UNCHANGED <<tr, lk, rs>>

\* MdEvent::Start(Tag::CodeBlock)
MbStartCodeBlock ==
    /\ BlockReady
    /\ \E lang \in CodeLangs :
          md' = [MbAfter(StartTag(md.r, [t |-> "CodeBlock", lang |-> lang]), "StartCodeBlock")
                 EXCEPT !.open = Append(@, "Code")]
    /\ UNCHANGED <<tr, lk, rs>>

\* MdEvent::Text in a code block
MbCodeText ==
    /\ MdReady /\ InCode /\ md.last # "Text"
    /\ \E t \in CodeTexts : md' = MbAfter(Text(md.r, t), "Text")
    /\ UNCHANGED <<tr, lk, rs>>

\* MdEvent::End(TagEnd::CodeBlock): the block is rendered, which initialises
\* the assets cell if it has text.
MbEndCodeBlock ==
    /\ MdReady /\ InCode
    /\ md' = [MbAfter(EndTag(md.r, [t |-> "CodeBlock"]), "EndCodeBlock")
              EXCEPT !.open = Pop(@)]
    /\ rs' = IF md.r.code_block_buf # <<>> THEN [rs EXCEPT !.assets = <<SyntectAssets>>] ELSE rs
    /\ UNCHANGED <<tr, lk>>

\* The end of the event stream, which is empty for an empty text:
\* renderer.finish()
MbFinish ==
    /\ md.started /\ ~md.done /\ md.open = <<>> /\ ~md.para
    /\ md' = [md EXCEPT !.done = TRUE, !.doc = <<Finish(md.r)>>]
    /\ UNCHANGED <<tr, lk, rs>>

NextMdBlock ==
    \/ MbText
    \/ MbHtml
    \/ MbEndParagraph
    \/ MbStartBlockQuote
    \/ MbEndBlockQuote
    \/ MbStartItem
    \/ MbTaskListMarker
    \/ MbEndItem
    \/ MbRule
    \/ MbStartCodeBlock
    \/ MbCodeText
    \/ MbEndCodeBlock
    \/ MbFinish

SpecMdBlock == InitMdBlock /\ [][NextMdBlock]_vars

(***************************************************************************)
(* Claim about line widths.                                                 *)
(***************************************************************************)
DocLines == IF md.done THEN md.doc[1].lines ELSE AllLines(md.r)
HasSpanOfKind(line, kinds) == \E j \in 1..Len(line) : line[j].kind \in kinds
EffectiveWidth == Max(md.width, MinWidth)

IsBlank(line) == line = <<>>
EmptyLine == <<Span(<<>>, StyleNew, "empty")>>

\* C16: the document finish returns has at least one line, a single line of
\* one empty span when nothing was rendered; the line under construction at
\* that moment is part of it; its last line is never a blank (span-less)
\* line.
C16_FinishDocument ==
    (md.started /\ md.done) =>
        LET doc == md.doc[1]
            rendered == \E i \in 1..Len(AllLines(md.r)) : ~IsBlank(AllLines(md.r)[i])
        IN  /\ Len(doc.lines) >= 1
            /\ ~rendered => doc.lines = <<EmptyLine>>
            /\ md.r.current_line # <<>> =>
                   \E i \in 1..Len(doc.lines) : doc.lines[i] = md.r.current_line
            /\ ~IsBlank(doc.lines[Len(doc.lines)])
            /\ rendered =>
                   \E k \in 0..Len(AllLines(md.r)) :
                       /\ doc.lines = SubSeq(AllLines(md.r), 1, Len(AllLines(md.r)) - k)
                       /\ \A i \in (Len(AllLines(md.r)) - k + 1)..Len(AllLines(md.r)) :
                              IsBlank(AllLines(md.r)[i])

\* A document finished while a line was under construction, after a
\* paragraph that left a blank line behind it.
C16_Witness ==
    /\ md.started /\ md.done
    /\ md.r.current_line # <<>>
    /\ \E i \in 1..Len(md.r.lines) : IsBlank(md.r.lines[i])
    /\ md.doc[1].lines[Len(md.doc[1].lines)] = md.r.current_line

\* The document of an empty text, and one whose lines end in a blank line
\* that finish drops.
FinishOfNothing == md.started /\ md.done /\ md.n = 0 /\ md.doc[1].lines = <<EmptyLine>>
FinishDropsBlank ==
    /\ md.started /\ md.done /\ md.r.lines # <<>>
    /\ IsBlank(md.r.lines[Len(md.r.lines)])
    /\ Len(md.doc[1].lines) < Len(md.r.lines)

(***************************************************************************)
(* Block quotes and what they hold, one event at a time: quotes open at any *)
(* block position, nested too, and every kind of event the renderer handles *)
(* occurs inside and outside them, links included.  md.arg is the text of   *)
(* the last Text event, md.open the stack of open containers, md.kinds the  *)
(* kinds of the open quotes from the outermost in, md.titled which of them  *)
(* have had a title line, md.para whether inline content has opened a       *)
(* paragraph.                                                               *)
(***************************************************************************)
TextWarningCareful ==
    <<"[", "!", "W", "A", "R", "N", "I", "N", "G", "]", " ", "C", "a", "r", "e", "f", "u", "l">>
TextWarningLower == <<" ", "[", "!", "w", "a", "r", "n", "i", "n", "g", "]">>
TextNoteMarker == <<"[", "!", "N", "O", "T", "E", "]", " ", "x">>
QuoteTexts == {TextAb, TextWarningCareful, TextWarningLower, TextNoteMarker}
AdmonitionKinds == {"Note", "Tip", "Important", "Warning", "Caution"}
QuoteOpenKinds == {<<>>, <<"Warning">>}
QuoteConfig == [width |-> 12, indent |-> 2]

InitMdQuote ==
    /\ tr = NoTruncCall
    /\ lk = NoLinkRender
    /\ rs = NoRenders
    /\ md = [started |-> TRUE, r |-> RendererNew(QuoteConfig.width, QuoteConfig.indent),
             width |-> QuoteConfig.width, indent |-> QuoteConfig.indent,
             n |-> 0, last |-> "None", done |-> FALSE, doc |-> <<>>,
             open |-> <<>>, para |-> FALSE, arg |-> <<>>, kinds |-> <<>>, titled |-> <<>>]

\* What an event leaves in the history fields; a title line the event emits
\* is put down to the innermost open quote.
EmitsTitle(r) ==
    \E i \in (Len(AllLines(md.r)) + 1)..Len(AllLines(r)) :
        \E j \in 1..Len(AllLines(r)[i]) : AllLines(r)[i][j].kind = "title"

MqAfter(r, kind) ==
    [md EXCEPT !.r = r, !.n = @ + 1, !.last = kind, !.arg = <<>>,
               !.titled = IF md.kinds # <<>> /\ EmitsTitle(r)
                          THEN [@ EXCEPT ![Len(@)] = TRUE] ELSE @]
InQuote == \E i \in 1..Len(md.open) : md.open[i] = "Quote"
QuoteReady == MdReady /\ ~InCode
QuoteLinkOpen == md.r.active_link_url # <<>>
QuoteBlockReady == QuoteReady /\ ~md.para

\* MdEvent::Start(Tag::BlockQuote)
MqStartBlockQuote ==
    /\ MdReady /\ ~md.para /\ ~InCode
    /\ \E kind \in QuoteOpenKinds :
          md' = [MqAfter(StartTag(md.r, [t |-> "BlockQuote", kind |-> kind]), "StartBlockQuote")
                 EXCEPT !.open = Append(@, "Quote"), !.kinds = Append(@, kind),
                        !.titled = Append(@, FALSE)]
    /\ UNCHANGED <<tr, lk, rs>>

\* MdEvent::End(TagEnd::BlockQuote)
MqEndBlockQuote ==
    /\ QuoteBlockReady /\ Top = "Quote"
    /\ md' = [MqAfter(EndTag(md.r, [t |-> "BlockQuote"]), "EndBlockQuote")
              EXCEPT !.open = Pop(@), !.kinds = Pop(@), !.titled = Pop(@)]
    /\ UNCHANGED <<tr, lk, rs>>

\* MdEvent::Text in a paragraph or a tight list item
MqText ==
    /\ QuoteReady /\ md.last # "Text"
    /\ \E t \in QuoteTexts :
          md' = [MqAfter(Text(md.r, t), "Text") EXCEPT !.para = TRUE, !.arg = t]
    /\ UNCHANGED <<tr, lk, rs>>

\* MdEvent::Code
MqInlineCode ==
    /\ QuoteReady
    /\ md' = [MqAfter(InlineCode(md.r, TextAb), "Code") EXCEPT !.para = TRUE]
    /\ UNCHANGED <<tr, lk, rs>>

\* MdEvent::InlineMath or DisplayMath
MqInlineMath ==
    /\ QuoteReady
    /\ md' = [MqAfter(InlineMath(md.r, TextAb), "Math") EXCEPT !.para = TRUE]
    /\ UNCHANGED <<tr, lk, rs>>

\* MdEvent::SoftBreak
MqSoftBreak ==
    /\ QuoteReady /\ md.last \notin {"SoftBreak", "HardBreak"}
    /\ md' = [MqAfter(SoftBreak(md.r), "SoftBreak") EXCEPT !.para = TRUE]
    /\ UNCHANGED <<tr, lk, rs>>

\* MdEvent::HardBreak
MqHardBreak ==
    /\ QuoteReady /\ md.last \notin {"SoftBreak", "HardBreak"}
    /\ md' = [MqAfter(HardBreak(md.r), "HardBreak") EXCEPT !.para = TRUE]
    /\ UNCHANGED <<tr, lk, rs>>

\* MdEvent::Start(Tag::Link)
MqStartLink ==
    /\ QuoteReady /\ ~QuoteLinkOpen
    /\ md' = [MqAfter([StartTag(md.r, [t |-> "Link", url |-> Url1]) EXCEPT !.link_no = @ + 1],
                      "StartLink")
              EXCEPT !.para = TRUE]
    /\ UNCHANGED <<tr, lk, rs>>

\* MdEvent::End(TagEnd::Link)
MqEndLink ==
    /\ QuoteReady /\ QuoteLinkOpen
    /\ md' = MqAfter(EndTag(md.r, [t |-> "Link"]), "EndLink")
    /\ UNCHANGED <<tr, lk, rs>>

\* MdEvent::End(TagEnd::Paragraph)
MqEndParagraph ==
    /\ QuoteReady /\ md.para /\ Top # "Item" /\ ~QuoteLinkOpen
    /\ md' = [MqAfter(EndTag(md.r, [t |-> "Paragraph"]), "EndParagraph") EXCEPT !.para = FALSE]
    /\ UNCHANGED <<tr, lk, rs>>

\* MdEvent::Start(Tag::Item)
MqStartItem ==
    /\ QuoteBlockReady /\ Top # "Item"
    /\ md' = [MqAfter(StartTag(md.r, [t |-> "Item"]), "StartItem")
              EXCEPT !.open = Append(@, "Item")]
    /\ UNCHANGED <<tr, lk, rs>>

\* MdEvent::TaskListMarker, the first event of its item
MqTaskListMarker ==
    /\ QuoteReady /\ md.last = "StartItem"
    /\ md' = [MqAfter(TaskListMarker(md.r, FALSE), "TaskListMarker") EXCEPT !.para = TRUE]
    /\ UNCHANGED <<tr, lk, rs>>

\* MdEvent::End(TagEnd::Item): a tight item ends with its inline content
MqEndItem ==
    /\ QuoteReady /\ Top = "Item" /\ ~QuoteLinkOpen
    /\ md' = [MqAfter(EndTag(md.r, [t |-> "Item"]), "EndItem")
              EXCEPT !.open = Pop(@), !.para = FALSE]
    /\ UNCHANGED <<tr, lk, rs>>

\* MdEvent::Rule
MqRule ==
    /\ QuoteBlockReady
    /\ md' = MqAfter(Rule(md.r), "Rule")
    /\ UNCHANGED <<tr, lk, rs>>

\* MdEvent::Start(Tag::CodeBlock), indented
MqStartCodeBlock ==
    /\ QuoteBlockReady
    /\ md' = [MqAfter(StartTag(md.r, [t |-> "CodeBlock", lang |-> <<>>]), "StartCodeBlock")
              EXCEPT !.open = Append(@, "Code")]
    /\ UNCHANGED <<tr, lk, rs>>

\* MdEvent::Text in a code block
MqCodeText ==
    /\ MdReady /\ InCode /\ md.last # "Text"
    /\ md' = [MqAfter(Text(md.r, TextAb), "Text") EXCEPT !.arg = TextAb]
    /\ UNCHANGED <<tr, lk, rs>>

\* MdEvent::End(TagEnd::CodeBlock)
MqEndCodeBlock ==
    /\ MdReady /\ InCode
    /\ md' = [MqAfter(EndTag(md.r, [t |-> "CodeBlock"]), "EndCodeBlock")
              EXCEPT !.open = Pop(@)]
    /\ rs' = IF md.r.code_block_buf # <<>> THEN [rs EXCEPT !.assets = <<SyntectAssets>>] ELSE rs
    /\ UNCHANGED <<tr, lk>>

\* The events that end what is still open at the end of the text: the
\* paragraph, then the containers from the innermost out.
RECURSIVE CloseAll(_, _)
CloseAll(r, open) ==
    IF open = <<>> THEN r
    ELSE CloseAll(EndTag(r, [t |-> IF open[Len(open)] = "Quote" THEN "BlockQuote" ELSE "Item"]),
                  Pop(open))

\* The end of the event stream: the End events of the open paragraph and
\* containers, then renderer.finish()
MqFinish ==
    /\ md.started /\ ~md.done /\ ~InCode /\ ~QuoteLinkOpen
    /\ LET r1 == IF md.para /\ Top # "Item" THEN EndTag(md.r, [t |-> "Paragraph"]) ELSE md.r
           r2 == CloseAll(r1, md.open)
       IN  md' = [md EXCEPT !.r = r2, !.done = TRUE, !.doc = <<Finish(r2)>>,
                            !.open = <<>>, !.para = FALSE, !.kinds = <<>>,
                            !.titled = <<>>]
    /\ UNCHANGED <<tr, lk, rs>>

NextMdQuote ==
    \/ MqStartBlockQuote
    \/ MqEndBlockQuote
    \/ MqText
    \/ MqInlineCode
    \/ MqInlineMath
    \/ MqSoftBreak
    \/ MqHardBreak
    \/ MqStartLink
    \/ MqEndLink
    \/ MqEndParagraph
    \/ MqStartItem
    \/ MqTaskListMarker
    \/ MqEndItem
    \/ MqRule
    \/ MqStartCodeBlock
    \/ MqCodeText
    \/ MqEndCodeBlock
    \/ MqFinish

SpecMdQuote == InitMdQuote /\ [][NextMdQuote]_vars

(***************************************************************************)
(* Claims about admonition titles.                                          *)
(***************************************************************************)
\* The text is "[!MARKER]" with the marker of the kind in any case, after
\* leading whitespace, and what follows it.
IsMarkerText(text, kind) ==
    LET t == TrimStart(text)
        m == AdmonitionStyle(kind).marker
    IN  /\ Len(t) >= Len(m) + 3
        /\ SubSeq(t, 1, 2) = <<"[", "!">>
        /\ EqIgnoreAsciiCase(SubSeq(t, 3, Len(m) + 2), m)
        /\ t[Len(m) + 3] = "]"

TrailingText(text, kind) ==
    LET t == TrimStart(text)
    IN  Trim(SubSeq(t, Len(AdmonitionStyle(kind).marker) + 4, Len(t)))

\* The line is a title header of the kind: prefix spans, then one span with
\* the title in the kind's title style.
IsTitleLine(line, kind, title) ==
    /\ line # <<>>
    /\ line[Len(line)].kind = "title"
    /\ line[Len(line)].content = title
    /\ line[Len(line)].style = AdmonitionStyle(kind).title_style
    /\ \A j \in 1..(Len(line) - 1) : line[j].kind \in {"indent", "border", "list"}

\* The step handles the text as a marker of the kind: one title line is
\* appended, with the trailing text or the default title, and nothing goes to
\* the line under construction.
TitleStep(kind) ==
    LET trailing == TrailingText(md'.arg, kind)
        title == IF trailing = <<>> THEN AdmonitionStyle(kind).default_title ELSE trailing
    IN  /\ Len(md'.r.lines) = Len(md.r.lines) + 1
        /\ SubSeq(md'.r.lines, 1, Len(md.r.lines)) = md.r.lines
        /\ IsTitleLine(md'.r.lines[Len(md'.r.lines)], kind, title)
        /\ md'.r.current_line = <<>>

FirstTextOfQuote == md.started /\ md.last = "StartBlockQuote" /\ md'.last = "Text"

LowerCaseMarkerGetsDefaultTitle ==
    [][(FirstTextOfQuote /\ md'.arg = TextWarningLower /\ md.r.block_quote_style # <<>>)
          => IsTitleLine(md'.r.lines[Len(md'.r.lines)], "Warning",
                         <<"W", "a", "r", "n", "i", "n", "g">>)]_vars

(***************************************************************************)
(* Claim about the position of link segments.                               *)
(***************************************************************************)
\* The characters of a text laid out from column pos on whose cells lie in
\* the columns lo..hi-1; zero-width characters have no cell.
RECURSIVE CellsBetween(_, _, _, _)
CellsBetween(text, pos, lo, hi) ==
    IF text = <<>> THEN <<>>
    ELSE LET c == Head(text)
             w == CharWidth(c)
         IN  (IF w > 0 /\ pos >= lo /\ pos + w <= hi THEN <<c>> ELSE <<>>)
             \o CellsBetween(Tail(text), pos + w, lo, hi)

HasCell(c) == CharWidth(c) > 0
CellText(text) == SelectSeq(text, HasCell)

\* The segment lies on a line of the document, is as wide as its label, and
\* the cells of that line from its column on hold the label.
SegmentMatchesCells(lines, s) ==
    /\ s.line + 1 \in 1..Len(lines)
    /\ s.width = DisplayWidth(s.label)
    /\ CellsBetween(LineText(lines[s.line + 1]), 0, s.col, s.col + s.width) = CellText(s.label)

\* C17: for every link segment s of a returned document, s.line is a line of
\* the document, s.width is the display width of s.label, and the cells
\* s.col .. s.col + s.width - 1 of that line, columns counted by the summed
\* display width of the spans from the start of the line, hold the label;
\* in paragraphs, list items and block quotes.
C17_SegmentsMatchCells ==
    (md.started /\ md.done) =>
        \A n \in 1..Len(md.doc[1].links) :
            SegmentMatchesCells(md.doc[1].lines, md.doc[1].links[n])

\* What the code keeps of C17: the same for the segments on lines that have
\* no quote border, at every moment of the render.
SegmentsMatchCellsOutsideQuotes ==
    md.started =>
        \A n \in 1..Len(md.r.links) :
            LET s == md.r.links[n]
            IN  /\ s.line + 1 \in 1..Len(AllLines(md.r))
                /\ s.width = DisplayWidth(s.label)
                /\ ~HasSpanOfKind(AllLines(md.r)[s.line + 1], {"border"})
                       => SegmentMatchesCells(AllLines(md.r), s)

\* On a line with a quote border the label starts one cell to the left of
\* the segment's column: the border is counted as two cells and is one.
SegmentsInQuotesOffByBorder ==
    md.started =>
        \A n \in 1..Len(md.r.links) :
            LET s == md.r.links[n]
                line == AllLines(md.r)[s.line + 1]
            IN  HasSpanOfKind(line, {"border"}) =>
                    CellsBetween(LineText(line), 0,
                                 s.col - (BorderWidth - DisplayWidth(BorderText)),
                                 s.col + s.width - (BorderWidth - DisplayWidth(BorderText)))
                        = CellText(s.label)

(***************************************************************************)
(* Claims about the quote border.                                           *)
(***************************************************************************)
\* The lines a step starts: those past the lines there were before it, the
\* one under construction counted.
NewLines == (Len(AllLines(md.r)) + 1)..Len(AllLines(md'.r))
BorderColor(kind) == IF kind = <<>> THEN "DarkGray" ELSE AdmonitionStyle(kind[1]).border_color

\* The line starts, after the indent, with a border span of the colour of a
\* quote of this kind.
HasBorder(line, indent, kind) ==
    LET k == IF indent > 0 THEN 2 ELSE 1
    IN  /\ Len(line) >= k
        /\ line[k].kind = "border"
        /\ line[k].style.fg = BorderColor(kind)

\* The cells the renderer counts on the line: indent, two for the border, and
\* the spans after them.
RECURSIVE ContentWidth(_)
ContentWidth(line) ==
    IF line = <<>> THEN 0
    ELSE (IF Head(line).kind \in {"indent", "border"} THEN 0 ELSE SpanWidth(Head(line)))
         + ContentWidth(Tail(line))

WithinBudget(line, indent) ==
    HasSpanOfKind(line, {"long", "title", "code"})
        \/ indent + BorderWidth + ContentWidth(line) <= EffectiveWidth

\* A step that handles an event inside a quote.
QuoteContentStep == md.started /\ md.kinds # <<>> /\ md'.kinds = md.kinds /\ ~md'.done

\* C18: between the open of a quote and its close, the part of an outer quote
\* after the close of a nested one included, every line started for quote
\* content that is not blank begins, after the indent, with the border span,
\* in the border colour of the innermost open quote's kind (gray when it is
\* not tagged), and the border's 2 cells count towards the width the line is
\* wrapped at.
C18_QuoteLinesHaveBorder ==
    [][QuoteContentStep =>
          \A i \in NewLines :
              LET line == AllLines(md'.r)[i]
              IN  ~IsBlank(line) =>
                      /\ HasBorder(line, md.indent, md.kinds[Len(md.kinds)])
                      /\ WithinBudget(line, md.indent)]_vars

\* What the code keeps of C18: the same while in_block_quote is set, which it
\* is from the open of a quote to the first close of any quote after it.
BorderWhileInBlockQuote ==
    [][(QuoteContentStep /\ md.r.in_block_quote) =>
          \A i \in NewLines :
              LET line == AllLines(md'.r)[i]
              IN  ~IsBlank(line) =>
                      /\ HasBorder(line, md.indent, md.kinds[Len(md.kinds)])
                      /\ WithinBudget(line, md.indent)]_vars

\* C18 reads the border as a span of 2 cells.
BorderSpanIsTwoCells ==
    md.started =>
        \A i \in 1..Len(AllLines(md.r)) : \A j \in 1..Len(AllLines(md.r)[i]) :
            AllLines(md.r)[i][j].kind = "border" => SpanWidth(AllLines(md.r)[i][j]) = 2

(***************************************************************************)
(* Claims about the default title of an admonition.                         *)
(***************************************************************************)
Tagged(q) == md.kinds[q] # <<>>
HasTitle(line) == HasSpanOfKind(line, {"title"})
NewTitleLines == {i \in NewLines : HasTitle(AllLines(md'.r)[i])}
NewBodyLines ==
    {i \in NewLines : ~IsBlank(AllLines(md'.r)[i]) /\ ~HasTitle(AllLines(md'.r)[i])}

\* The step handles a text that is a marker of the innermost quote's kind,
\* before that quote has a title.
MarkerStep ==
    /\ md'.last = "Text"
    /\ Tagged(Len(md.kinds))
    /\ ~md.titled[Len(md.kinds)]
    /\ IsMarkerText(md'.arg, md.kinds[Len(md.kinds)][1])

\* Body lines come only after the title of every open tagged quote: a step
\* that emits body lines leaves every open tagged quote titled, and the
\* title it emits itself comes before the body lines it emits.
TitlePrecedesBody ==
    NewBodyLines # {} =>
        /\ \A q \in 1..Len(md.kinds) : Tagged(q) => md'.titled[q]
        /\ \A t \in NewTitleLines : \A i \in NewBodyLines : t < i

\* A step emits a title line only for a tagged quote that has none yet, one
\* line, with the kind's default title unless the text is a matching marker.
OneDefaultTitle ==
    NewTitleLines # {} =>
        /\ Tagged(Len(md.kinds))
        /\ ~md.titled[Len(md.kinds)]
        /\ Cardinality(NewTitleLines) = 1
        /\ ~MarkerStep =>
               \A t \in NewTitleLines :
                   LET kind == md.kinds[Len(md.kinds)][1]
                   IN  IsTitleLine(AllLines(md'.r)[t], kind, AdmonitionStyle(kind).default_title)

\* C19: a quote tagged as an admonition whose first text is not a matching
\* marker gets exactly one title line, with the kind's default title, before
\* every body line of the quote, whatever the first body content is (text,
\* inline code, math, a break, a task marker, a code block, a rule, a list
\* item, a nested quote); no admonition quote gets a second title line.
C19_DefaultTitleBeforeBody ==
    [][QuoteContentStep => (TitlePrecedesBody /\ OneDefaultTitle)]_vars

\* What the code keeps of C19: the same for the events of a quote that has
\* had no quote nested in it, rules excepted; never a second title line.
DefaultTitleWithoutRuleAndNesting ==
    [][QuoteContentStep =>
          /\ OneDefaultTitle
          /\ (Len(md.kinds) = 1 /\ md.r.in_block_quote /\ md'.last # "Rule")
                 => TitlePrecedesBody]_vars

\* The first content of a quote tagged Warning is inline code: the default
\* title line, then the code.
DefaultTitleBeforeInlineCode ==
    /\ md.started /\ md.n = 2 /\ md.last = "Code" /\ md.kinds = << <<"Warning">> >>
    /\ Len(md.r.lines) = 1
    /\ IsTitleLine(md.r.lines[1], "Warning", AdmonitionStyle("Warning").default_title)
    /\ md.r.current_line # <<>>

(***************************************************************************)
(* Claim about blank lines.                                                 *)
(***************************************************************************)
RECURSIVE NoTwoBlanks(_)
NoTwoBlanks(lines) ==
    \/ Len(lines) < 2
    \/ /\ ~(IsBlank(lines[1]) /\ IsBlank(lines[2]))
       /\ NoTwoBlanks(Tail(lines))

\* The End(BlockQuote) event, and any step that closes quotes.
EndBlockQuoteStep == md'.n = md.n + 1 /\ md'.last = "EndBlockQuote"
QuoteCloseStep == Len(md'.kinds) < Len(md.kinds)
BorderStateCleared(r) ==
    ~r.in_block_quote /\ r.block_quote_style = <<>> /\ ~r.block_quote_title_pending

\* One blank line after the lines there were, none added when the last of
\* them is blank already.
WithOneSeparator(lines) ==
    IF lines # <<>> /\ IsBlank(lines[Len(lines)]) THEN lines ELSE Append(lines, <<>>)

\* C20: after any sequence of events the line list holds no two blank lines
\* in a row; a step that closes a block quote leaves the border state
\* cleared, no line under construction and a blank line last in the list;
\* and the End(BlockQuote) event leaves the lines there were, the one under
\* construction included, followed by exactly one blank line, the one the
\* quote's last paragraph appended when it appended one.
C20_BlankLines ==
    [][/\ NoTwoBlanks(md'.r.lines)
       /\ QuoteCloseStep =>
             /\ BorderStateCleared(md'.r)
             /\ md'.r.current_line = <<>>
             /\ md'.r.lines # <<>> /\ IsBlank(md'.r.lines[Len(md'.r.lines)])
       /\ EndBlockQuoteStep => md'.r.lines = WithOneSeparator(AllLines(md.r))]_vars

\* A quote of one paragraph has been closed: its bordered line is followed
\* by the one blank line the paragraph appended.
C20_Witness ==
    /\ md.started /\ ~md.done /\ md.n = 4 /\ md.last = "EndBlockQuote" /\ md.kinds = <<>>
    /\ Len(md.r.lines) = 2
    /\ HasSpanOfKind(md.r.lines[1], {"border"})
    /\ IsBlank(md.r.lines[2])
    /\ BorderStateCleared(md.r)

(***************************************************************************)
(* Claim about space cells.                                                 *)
(***************************************************************************)
PrefixKinds == {"indent", "border", "list"}
IsPrefixSpan(sp) == sp.kind \in PrefixKinds
IsCodeLine(line) == HasSpanOfKind(line, {"code"})

\* The width of the spans before position j that are not prefix spans.
RECURSIVE WidthPastPrefix(_, _)
WidthPastPrefix(line, j) ==
    IF j <= 1 THEN 0
    ELSE WidthPastPrefix(line, j - 1)
         + (IF IsPrefixSpan(line[j - 1]) THEN 0 ELSE SpanWidth(line[j - 1]))

\* A space span is one cell, has content wider than nothing before it past
\* the prefix, and is directly followed by a non-empty word.
SpaceBeforeWord(line, j) ==
    /\ line[j].content = <<" ">>
    /\ WidthPastPrefix(line, j) > 0
    /\ j < Len(line)
    /\ line[j + 1].kind = "word" /\ line[j + 1].content # <<>>

\* The first span past the prefix does not begin with a space and the last
\* one does not end with one.
NoEdgeSpace(line) ==
    \A j \in 1..Len(line) :
        (~IsPrefixSpan(line[j]) /\ line[j].content # <<>>) =>
            /\ (j = 1 \/ IsPrefixSpan(line[j - 1])) => line[j].content[1] # " "
            /\ j = Len(line) => line[j].content[Len(line[j].content)] # " "

SpacesInPlace(lines) ==
    \A i \in 1..Len(lines) :
        ~IsCodeLine(lines[i]) =>
            /\ \A j \in 1..Len(lines[i]) :
                  lines[i][j].kind = "space" => SpaceBeforeWord(lines[i], j)
            /\ NoEdgeSpace(lines[i])

\* The steps whose handler ends with a flush of the line.
FlushingStep ==
    /\ md'.n = md.n + 1
    /\ md'.last \in {"HardBreak", "EndParagraph", "EndItem", "EndBlockQuote", "Rule",
                     "StartBlockQuote", "StartItem", "StartCodeBlock", "EndCodeBlock"}

\* C22: outside code blocks a space span is one cell, directly before a
\* non-empty word and after content past the prefix of its line, so that no
\* line has a space directly after its prefix or at its end and no two
\* spaces follow each other; flush_line leaves no pending space, and none is
\* left after any event that ends with a flush.
C22_SpacesOnlyBetweenWords ==
    [][/\ SpacesInPlace(AllLines(md'.r))
       /\ ~FlushLine(md'.r).pending_space
       /\ FlushingStep => ~md'.r.pending_space]_vars

\* A text of two words followed by a break and a text that begins with a
\* space and does not fit: the first line has its one space between the two
\* words, the second line begins with the word.
C22_Witness ==
    /\ md.started /\ md.n = 3 /\ md.last = "Text" /\ md.arg = TextWarningLower
    /\ md.kinds = <<>> /\ md.open = <<>>
    /\ Len(md.r.lines) = 1 /\ md.r.current_line # <<>>
    /\ \E j \in 1..Len(md.r.lines[1]) : md.r.lines[1][j].kind = "space"
    /\ ~HasSpanOfKind(md.r.current_line, {"space"})

(***************************************************************************)
(* Repeated renders.  rs.calls lists the completed render_markdown calls,   *)
(* each with its arguments and the document it returned; rs.assets is the   *)
(* process-wide assets cell, the one thing that outlives a call.            *)
(***************************************************************************)
EvText(text) == [e |-> "Text", text |-> text]
EvStart(tag) == [e |-> "Start", tag |-> tag]
EvEnd(tag) == [e |-> "End", tag |-> tag]

DocWrapped == <<EvStart([t |-> "Paragraph"]), EvText(TextWrap), EvEnd([t |-> "Paragraph"])>>
DocLink ==
    <<EvStart([t |-> "Paragraph"]), EvText(TextAb),
      EvStart([t |-> "Link", url |-> Url1]), EvText(TextSpCd), EvEnd([t |-> "Link"]),
      EvEnd([t |-> "Paragraph"])>>
DocRustCode ==
    <<EvStart([t |-> "CodeBlock", lang |-> LangRs]),
      EvText(<<"a", "b", "\n", "f", "f">>), EvEnd([t |-> "CodeBlock"])>>
DocPlainCode ==
    <<EvStart([t |-> "CodeBlock", lang |-> <<>>]), EvText(TextLong), EvEnd([t |-> "CodeBlock"])>>
DocAdmonition ==
    <<EvStart([t |-> "BlockQuote", kind |-> <<"Note">>]), EvStart([t |-> "Paragraph"]),
      EvText(TextNoteTitle), [e |-> "SoftBreak"], EvText(TextAb),
      EvEnd([t |-> "Paragraph"]), EvEnd([t |-> "BlockQuote"])>>
DocListAndCode ==
    <<EvStart([t |-> "Item"]), [e |-> "TaskListMarker", checked |-> TRUE], EvText(TextAb),
      EvEnd([t |-> "Item"]), [e |-> "Rule"],
      EvStart([t |-> "CodeBlock", lang |-> LangRs]), EvText(<<"f", "!">>),
      EvEnd([t |-> "CodeBlock"])>>
Documents == {DocWrapped, DocLink, DocRustCode, DocPlainCode, DocAdmonition, DocListAndCode}

InitRenders ==
    /\ tr = NoTruncCall
    /\ lk = NoLinkRender
    /\ md = NoMarkdown
    /\ rs = NoRenders

\* render_markdown is entered: a new renderer, the parser at the first event.
\* rs.cur is the call in progress; calls do not overlap.
RenderBegin ==
    /\ rs.cur = <<>> /\ Len(rs.calls) < MaxRenders
    /\ \E events \in Documents, cfg \in Configs :
          rs' = [rs EXCEPT !.cur = <<[events |-> events, width |-> cfg.width,
                                      indent |-> cfg.indent, next |-> 1, used |-> FALSE,
                                      r |-> RendererNew(cfg.width, cfg.indent)]>>]
    /\ UNCHANGED <<tr, lk, md>>

\* One turn of render_markdown's loop, for each kind of event the documents
\* hold.  RenderNext is the event the parser yields next.
RenderNext == rs.cur[1].events[rs.cur[1].next]
RenderPending(kind) ==
    /\ rs.cur # <<>> /\ rs.cur[1].next <= Len(rs.cur[1].events)
    /\ RenderNext.e = kind
RenderAdvance(r) == [rs EXCEPT !.cur[1].r = r, !.cur[1].next = @ + 1]

\* MdEvent::Start(tag) => renderer.start_tag(tag)
RenderStart ==
    /\ RenderPending("Start")
    /\ rs' = RenderAdvance(StartTag(rs.cur[1].r, RenderNext.tag))
    /\ UNCHANGED <<tr, lk, md>>

\* MdEvent::End(tag) => renderer.end_tag(tag).  The end of a code block with
\* text reads the assets cell and initialises it if it is empty.
RenderEnd ==
    /\ RenderPending("End")
    /\ LET reads == RenderNext.tag.t = "CodeBlock" /\ rs.cur[1].r.code_block_buf # <<>>
       IN  rs' = [RenderAdvance(EndTag(rs.cur[1].r, RenderNext.tag))
                  EXCEPT !.cur[1].used = @ \/ reads,
                         !.assets = IF reads THEN <<SyntectAssets>> ELSE @]
    /\ UNCHANGED <<tr, lk, md>>

\* MdEvent::Text(text) => renderer.text(&text)
RenderText ==
    /\ RenderPending("Text")
    /\ rs' = RenderAdvance(Text(rs.cur[1].r, RenderNext.text))
    /\ UNCHANGED <<tr, lk, md>>

\* MdEvent::SoftBreak => renderer.soft_break()
RenderSoftBreak ==
    /\ RenderPending("SoftBreak")
    /\ rs' = RenderAdvance(SoftBreak(rs.cur[1].r))
    /\ UNCHANGED <<tr, lk, md>>

\* MdEvent::Rule => renderer.rule()
RenderRule ==
    /\ RenderPending("Rule")
    /\ rs' = RenderAdvance(Rule(rs.cur[1].r))
    /\ UNCHANGED <<tr, lk, md>>

\* MdEvent::TaskListMarker(checked) => renderer.task_list_marker(checked)
RenderTaskListMarker ==
    /\ RenderPending("TaskListMarker")
    /\ rs' = RenderAdvance(TaskListMarker(rs.cur[1].r, RenderNext.checked))
    /\ UNCHANGED <<tr, lk, md>>

\* render_markdown returns renderer.finish().
RenderReturn ==
    /\ rs.cur # <<>> /\ rs.cur[1].next > Len(rs.cur[1].events)
    /\ rs' = [rs EXCEPT !.cur = <<>>,
                        !.calls = Append(@, [events |-> rs.cur[1].events,
                                             width |-> rs.cur[1].width,
                                             indent |-> rs.cur[1].indent,
                                             used |-> rs.cur[1].used,
                                             doc |-> Finish(rs.cur[1].r)])]
    /\ UNCHANGED <<tr, lk, md>>

NextRenders ==
    \/ RenderBegin
    \/ RenderStart
    \/ RenderEnd
    \/ RenderText
    \/ RenderSoftBreak
    \/ RenderRule
    \/ RenderTaskListMarker
    \/ RenderReturn

SpecRenders == InitRenders /\ [][NextRenders]_vars

SameArguments(a, b) == a.events = b.events /\ a.width = b.width /\ a.indent = b.indent

Inner(area) ==
    [x |-> Min(area.x + 1, area.x + area.width),
     y |-> Min(area.y + 1, area.y + area.height),
     width |-> SatSub(SatSub(area.width, 1), 1),
     height |-> SatSub(SatSub(area.height, 1), 1)]

\* Mutant: the column moves by the number of leading whitespace characters.
ProjectLinkByCharacters(links, i, inner, line_offset) ==
    LET link == links[i]
        trimmed_label == Trim(link.label)
        start == Len(link.label) - Len(TrimStart(link.label))
        link_col == link.col + start
        link_width == DisplayWidth(trimmed_label)
        local_y == link.line - line_offset
        available == SatSub(inner.width, link_col)
    IN  IF trimmed_label = <<>> THEN <<>>
        ELSE IF link_width = 0 THEN <<>>
        ELSE IF link.line < line_offset THEN <<>>
        ELSE IF local_y >= inner.height \/ link_col >= inner.width THEN <<>>
        ELSE IF available = 0 THEN <<>>
        ELSE <<[area |-> [x |-> inner.x + link_col, y |-> inner.y + local_y,
                          width |-> Min(available, link_width), height |-> 1],
                label |-> trimmed_label, url |-> link.url, index |-> i]>>

\* The body of the loop for one link: no draw, or the draw.
ProjectLink(links, i, inner, line_offset) ==
    LET link == links[i]
        trimmed_label == Trim(link.label)
        start == Len(link.label) - Len(TrimStart(link.label))
        leading_ws_width == DisplayWidth(SubSeq(link.label, 1, start))
        link_col == link.col + leading_ws_width
        link_width == DisplayWidth(trimmed_label)
        local_y == link.line - line_offset
        available == SatSub(inner.width, link_col)
    IN  IF trimmed_label = <<>> THEN <<>>
        ELSE IF link_width = 0 THEN <<>>
        ELSE IF link.line < line_offset THEN <<>>
        ELSE IF local_y >= inner.height \/ link_col >= inner.width THEN <<>>
        ELSE IF available = 0 THEN <<>>
        ELSE <<[area |-> [x |-> inner.x + link_col, y |-> inner.y + local_y,
                          width |-> Min(available, link_width), height |-> 1],
                label |-> trimmed_label, url |-> link.url, index |-> i]>>

\* The loop over render.links, from link i on.
RECURSIVE ProjectFrom(_, _, _, _)
ProjectFrom(links, i, inner, line_offset) ==
    IF i > Len(links) THEN <<>>
    ELSE ProjectLink(links, i, inner, line_offset)
         \o ProjectFrom(links, i + 1, inner, line_offset)

\* Mutant: the line offset is not subtracted from the segment's line.
ProjectLinksUnscrolled(links, body_area, line_offset) ==
    IF links = <<>> THEN <<>>
    ELSE LET inner == Inner(body_area)
         IN  IF inner.width = 0 \/ inner.height = 0 THEN <<>>
             ELSE ProjectFrom(links, 1, inner, 0)

\* Mutant: the draw is as wide as the label, whatever room is left.
ProjectLinksUnclipped(links, body_area, line_offset) ==
    IF links = <<>> THEN <<>>
    ELSE LET inner == Inner(body_area)
             wide == [inner EXCEPT !.width = @ + 1]
         IN  IF inner.width = 0 \/ inner.height = 0 THEN <<>>
             ELSE ProjectFrom(links, 1, wide, line_offset)

\* render_body_links: the draws it issues, in order.
ProjectLinks(links, body_area, line_offset) ==
    IF links = <<>> THEN <<>>
    ELSE LET inner == Inner(body_area)
         IN  IF inner.width = 0 \/ inner.height = 0 THEN <<>>
             ELSE ProjectFrom(links, 1, inner, line_offset)

\* The frame: BufHeight rows of BufWidth cells.
EmptyFrame == [y \in 0..(BufHeight - 1) |-> EmptyBuffer]

\* Link::new(trimmed_label, url).style(blue underlined).render(link_area, buf)
\* for every draw, in order.
RECURSIVE PaintDraws(_, _, _)
PaintDraws(frame, draws, osc8) ==
    IF draws = <<>> THEN frame
    ELSE LET d == Head(draws)
             link == [LinkNew(d.label, d.url) EXCEPT !.style = DefaultLinkStyle]
             painted == IF d.area.y \in DOMAIN frame
                        THEN [frame EXCEPT ![d.area.y] = LinkRender(link, d.area, @, osc8)]
                        ELSE frame
         IN  PaintDraws(painted, Tail(draws), osc8)

\* A link segment as push_link_segment records it.
Segment(line, col, label, url) ==
    [line |-> line, col |-> col, label |-> label, url |-> url, width |-> DisplayWidth(label)]

\* Link lists: none; one segment; a label wrapped over three lines; two links
\* of different urls with segments at and next to the right edge; a wide
\* glyph next to the right edge; labels with whitespace around them or of
\* whitespace or zero-width characters only.
LinkLists ==
    {<<>>,
     <<Segment(0, 0, TextAb, Url1)>>,
     <<Segment(0, 1, TextAb, Url1), Segment(1, 0, <<"c", "d">>, Url1),
       Segment(2, 0, <<"e">>, Url1)>>,
     <<Segment(0, 0, TextAb, Url1), Segment(0, BufWidth - 2, <<"c", "d">>, Url2),
       Segment(1, BufWidth - 3, TextAb, Url2)>>,
     <<Segment(1, BufWidth - 3, <<WideGlyph, "a">>, Url1), Segment(3, 0, TextAb, Url1)>>,
     <<Segment(0, 0, <<"a", "b", " ">>, Url1), Segment(1, 1, <<" ">>, Url2),
       Segment(1, 2, <<ZeroWidthChar>>, Url2), Segment(2, 0, <<" ", "a">>, Url2)>>,
     <<Segment(0, 0, <<WideSpace, "a", " ">>, Url1), Segment(1, 0, <<>>, Url1),
       Segment(1, 1, <<" ", WideSpace>>, Url2), Segment(1, 0, <<" ", WideGlyph, WideSpace>>, Url2)>>}

\* Body areas inside the frame: the whole frame, a smaller area off the left
\* edge, and areas whose inside is empty.
BodyAreas ==
    {[x |-> 0, y |-> 0, width |-> BufWidth, height |-> BufHeight],
     [x |-> 1, y |-> 0, width |-> BufWidth - 1, height |-> BufHeight - 1],
     [x |-> 0, y |-> 0, width |-> 2, height |-> BufHeight],
     [x |-> 0, y |-> 0, width |-> BufWidth, height |-> 1]}

InitProject ==
    /\ tr = NoTruncCall
    /\ md = NoMarkdown
    /\ rs = NoRenders
    /\ \E links \in LinkLists, body_area \in BodyAreas, osc8 \in BOOLEAN :
          lk = [links |-> links, body_area |-> body_area, line_offset |-> 0,
                osc8 |-> osc8, frame |-> EmptyFrame, draws |-> <<>>, painted |-> FALSE]

\* The body paragraph is scrolled to another line offset; the frame on screen
\* is the one of the last paint until the next one.
SetLineOffset ==
    /\ \E offset \in 0..MaxLineOffset :
          /\ offset # lk.line_offset
          /\ lk' = [lk EXCEPT !.line_offset = offset, !.draws = <<>>, !.painted = FALSE]
    /\ UNCHANGED <<tr, md, rs>>

\* One paint of the body: render_body_links over a fresh frame.
RenderBodyLinks ==
    /\ LET draws == ProjectLinks(lk.links, lk.body_area, lk.line_offset)
       IN  lk' = [lk EXCEPT !.draws = draws, !.painted = TRUE,
                            !.frame = PaintDraws(EmptyFrame, draws, lk.osc8)]
    /\ UNCHANGED <<tr, md, rs>>

NextProject ==
    \/ SetLineOffset
    \/ RenderBodyLinks

SpecProject == InitProject /\ [][NextProject]_vars

(***************************************************************************)
(* Claims about the projection of links.                                    *)
(***************************************************************************)
Viewport == Inner(lk.body_area)

\* The label without the whitespace around it and the column it starts at.
ShownLabel(seg) == Trim(seg.label)
ShownCol(seg) == seg.col + DisplayWidth(seg.label) - DisplayWidth(TrimStart(seg.label))

\* A segment is visible when its label is at least one cell wide without the
\* whitespace around it and that label starts on a row and at a column of the
\* viewport.
Visible(seg) ==
    /\ DisplayWidth(ShownLabel(seg)) >= 1
    /\ seg.line >= lk.line_offset
    /\ seg.line - lk.line_offset < Viewport.height
    /\ ShownCol(seg) < Viewport.width

VisibleIndexes == {i \in 1..Len(lk.links) : Visible(lk.links[i])}

\* C14: a paint issues exactly one draw per visible segment, in the order of
\* the link list, each with its segment's url; the visible fragments of a
\* wrapped label get a draw each, all with the label's url.
C14_OneDrawPerVisibleSegment ==
    lk.painted =>
        /\ Len(lk.draws) = Cardinality(VisibleIndexes)
        /\ {lk.draws[k].index : k \in 1..Len(lk.draws)} = VisibleIndexes
        /\ \A k \in 1..Len(lk.draws) :
              /\ lk.draws[k].url = lk.links[lk.draws[k].index].url
              /\ lk.draws[k].label = ShownLabel(lk.links[lk.draws[k].index])
              /\ \A j \in 1..(k - 1) : lk.draws[j].index < lk.draws[k].index

\* The label wrapped over three lines, scrolled by one line: the fragments on
\* the second and third line are drawn, both with the label's url.
C14_Witness ==
    /\ lk.painted /\ lk.line_offset = 1 /\ Len(lk.links) = 3
    /\ Len(lk.draws) = 2
    /\ lk.draws[1].index = 2 /\ lk.draws[2].index = 3
    /\ lk.draws[1].url = lk.draws[2].url

\* C15: every draw is one row high and lies inside the viewport: its row is
\* viewport top + (segment line - line offset), with the segment line at or
\* after the line offset and the row above the viewport's bottom; it starts
\* at a column of the viewport; its width is the smaller of the label's
\* width and the columns left up to the right edge, and at least 1.  A
\* segment above the line offset, below the viewport or starting at or beyond
\* the right edge has no draw.
C15_DrawsInsideViewport ==
    lk.painted =>
        /\ \A k \in 1..Len(lk.draws) :
              LET d == lk.draws[k]
                  seg == lk.links[d.index]
              IN  /\ d.area.height = 1
                  /\ seg.line >= lk.line_offset
                  /\ d.area.y = Viewport.y + (seg.line - lk.line_offset)
                  /\ d.area.y < Viewport.y + Viewport.height
                  /\ d.area.x >= Viewport.x
                  /\ d.area.x < Viewport.x + Viewport.width
                  /\ d.area.width =
                         Min(DisplayWidth(d.label), Viewport.x + Viewport.width - d.area.x)
                  /\ d.area.width >= 1
                  /\ d.area.x + d.area.width <= Viewport.x + Viewport.width
        /\ \A i \in 1..Len(lk.links) :
              (\/ lk.links[i].line < lk.line_offset
               \/ lk.links[i].line - lk.line_offset >= Viewport.height
               \/ lk.links[i].col >= Viewport.width)
                  => \A k \in 1..Len(lk.draws) : lk.draws[k].index # i

\* A paint, scrolled by one line, that clips a draw at the right edge, and
\* leaves out a segment above the line offset.
C15_Witness ==
    /\ lk.painted /\ lk.line_offset = 1
    /\ \E k \in 1..Len(lk.draws) :
          lk.draws[k].area.width < DisplayWidth(lk.draws[k].label)
    /\ \E i \in 1..Len(lk.links) : lk.links[i].line < lk.line_offset


(***************************************************************************)
(* Style tags.  The inline tags nest in each other as the parser nests      *)
(* them: a heading is opened at block level only and a link holds no link.  *)
(* md.open is the stack of open tags, md.saved the effective style there    *)
(* was before each of them was opened, md.deep the deepest nesting so far.  *)
(***************************************************************************)
NestedTags == StyleTags \cup {"Link", "Heading"}
StyleConfig == [width |-> 12, indent |-> 0]

InitStyle ==
    /\ tr = NoTruncCall
    /\ lk = NoLinkRender
    /\ rs = NoRenders
    /\ md = [started |-> TRUE, r |-> RendererNew(StyleConfig.width, StyleConfig.indent),
             n |-> 0, last |-> "None", done |-> FALSE,
             open |-> <<>>, saved |-> <<>>, deep |-> 0]

TagOf(t) == IF t = "Link" THEN [t |-> "Link", url |-> Url1] ELSE [t |-> t]
IsOpen(t) == \E i \in 1..Len(md.open) : md.open[i] = t

\* MdEvent::Start of a style tag
StStartTag ==
    /\ MdReady
    /\ \E t \in NestedTags :
          /\ t = "Heading" => md.open = <<>>
          /\ t = "Link" => ~IsOpen("Link")
          /\ md' = [md EXCEPT !.r = StartTag(md.r, TagOf(t)), !.n = @ + 1, !.last = "Start",
                              !.open = Append(@, t),
                              !.saved = Append(@, md.r.current_style),
                              !.deep = Max(@, Len(md.open) + 1)]
    /\ UNCHANGED <<tr, lk, rs>>

\* MdEvent::End of the innermost open tag
StEndTag ==
    /\ MdReady /\ md.open # <<>>
    /\ md' = [md EXCEPT !.r = EndTag(md.r, TagOf(Top)), !.n = @ + 1, !.last = "End",
                        !.open = Pop(@), !.saved = Pop(@)]
    /\ UNCHANGED <<tr, lk, rs>>

\* MdEvent::Text
StText ==
    /\ MdReady /\ md.last # "Text"
    /\ md' = [md EXCEPT !.r = Text(md.r, TextAb), !.n = @ + 1, !.last = "Text"]
    /\ UNCHANGED <<tr, lk, rs>>

NextStyle ==
    \/ StStartTag
    \/ StEndTag
    \/ StText

SpecStyle == InitStyle /\ [][NextStyle]_vars

(***************************************************************************)
(* Claim about the style stack.                                             *)
(***************************************************************************)
StyleStartStep == md'.n = md.n + 1 /\ md'.last = "Start"
StyleEndStep == md'.n = md.n + 1 /\ md'.last = "End"
StyleTextStep == md'.n = md.n + 1 /\ md'.last = "Text"
LastLineOf(r) == AllLines(r)[Len(AllLines(r))]

\* C21: for every well-nested sequence of emphasis, strong, strikethrough,
\* subscript, superscript, link and heading tags: right after a tag's start
\* the effective style is the enclosing style patched with the tag's
\* attributes; right after its matching end it is the style there was right
\* before its start; text takes the effective style; and once every tag is
\* closed the stack is empty and the style is the initial one.
C21_StyleStackIsLifo ==
    [][/\ StyleStartStep =>
             /\ md'.r.current_style
                    = StylePatch(md.r.current_style, TagStyle(md'.open[Len(md'.open)]))
             /\ md'.r.style_stack = Append(md.r.style_stack, md.r.current_style)
       /\ StyleEndStep =>
             /\ md'.r.current_style = md.saved[Len(md.saved)]
             /\ md'.r.style_stack = Pop(md.r.style_stack)
       /\ StyleTextStep =>
             LET line == LastLineOf(md'.r)
             IN  line[Len(line)].style = md.r.current_style
       /\ md'.open = <<>> =>
             md'.r.style_stack = <<>> /\ md'.r.current_style = StyleNew]_vars

\* Two tags nested in each other have been opened and closed, the inner one
\* adding attributes the outer one has not.
C21_Witness ==
    /\ md.started /\ md.last = "End" /\ md.open = <<>> /\ md.deep >= 2 /\ md.n = 5
    /\ md.r.style_stack = <<>> /\ md.r.current_style = StyleNew
    /\ \E i \in 1..Len(AllLines(md.r)) : \E j \in 1..Len(AllLines(md.r)[i]) :
          AllLines(md.r)[i][j].style = [fg |-> "Blue", mods |-> {"UNDERLINED", "BOLD"}]


(***************************************************************************)
(* Words and prefixes of every size: render_markdown with any width and     *)
(* indent, the indent at or past the width included, on words of narrow,    *)
(* wide and zero-width characters, in and out of quotes and list items.     *)
(* md.arg is the word of the last Text event.                               *)
(***************************************************************************)
TextWidePair == <<WideGlyph, WideGlyph>>
TextMixed == <<"a", ZeroWidthChar, WideGlyph, "b">>
WrapWords == {TextAb, TextLong, TextWidePair, TextMixed}
WrapConfigs ==
    {[width |-> 12, indent |-> 2], [width |-> 10, indent |-> 9],
     [width |-> 10, indent |-> 10], [width |-> 8, indent |-> 12]}

InitWrap ==
    /\ tr = NoTruncCall
    /\ lk = NoLinkRender
    /\ rs = NoRenders
    /\ \E cfg \in WrapConfigs :
          md = [started |-> TRUE, r |-> RendererNew(cfg.width, cfg.indent),
                width |-> cfg.width, indent |-> cfg.indent,
                n |-> 0, last |-> "None", done |-> FALSE, doc |-> <<>>,
                open |-> <<>>, para |-> FALSE, arg |-> <<>>]

WrReady == md.started /\ ~md.done /\ md.n < MaxWrapEvents
WrAfter(r, kind) == [md EXCEPT !.r = r, !.n = @ + 1, !.last = kind, !.arg = <<>>]

\* MdEvent::Start(Tag::BlockQuote), untagged
WrStartBlockQuote ==
    /\ WrReady /\ ~md.para /\ Top # "Quote"
    /\ md' = [WrAfter(StartTag(md.r, [t |-> "BlockQuote", kind |-> <<>>]), "StartBlockQuote")
              EXCEPT !.open = Append(@, "Quote")]
    /\ UNCHANGED <<tr, lk, rs>>

\* MdEvent::Start(Tag::Item)
WrStartItem ==
    /\ WrReady /\ ~md.para /\ Top # "Item"
    /\ md' = [WrAfter(StartTag(md.r, [t |-> "Item"]), "StartItem")
              EXCEPT !.open = Append(@, "Item")]
    /\ UNCHANGED <<tr, lk, rs>>

\* MdEvent::Text of one word
WrText ==
    /\ WrReady /\ md.last # "Text"
    /\ \E t \in WrapWords :
          md' = [WrAfter(Text(md.r, t), "Text") EXCEPT !.para = TRUE, !.arg = t]
    /\ UNCHANGED <<tr, lk, rs>>

\* MdEvent::SoftBreak
WrSoftBreak ==
    /\ WrReady /\ md.last = "Text"
    /\ md' = WrAfter(SoftBreak(md.r), "SoftBreak")
    /\ UNCHANGED <<tr, lk, rs>>

\* The end of the event stream: the End events of the open paragraph and
\* containers, then renderer.finish()
WrFinish ==
    /\ md.started /\ ~md.done
    /\ LET r1 == IF md.para /\ Top # "Item" THEN EndTag(md.r, [t |-> "Paragraph"]) ELSE md.r
           r2 == CloseAll(r1, md.open)
       IN  md' = [md EXCEPT !.r = r2, !.done = TRUE, !.doc = <<Finish(r2)>>,
                            !.open = <<>>, !.para = FALSE]
    /\ UNCHANGED <<tr, lk, rs>>

NextWrap ==
    \/ WrStartBlockQuote
    \/ WrStartItem
    \/ WrText
    \/ WrSoftBreak
    \/ WrFinish

SpecWrap == InitWrap /\ [][NextWrap]_vars

(***************************************************************************)
(* Claim about words wider than the line.                                   *)
(***************************************************************************)
\* A Text step whose word is wider than what the prefix leaves of the line.
LongWordStep ==
    /\ md'.n = md.n + 1 /\ md'.last = "Text"
    /\ DisplayWidth(md'.arg) > SatSub(md.r.max_width, PrefixWidth(md.r))

\* The lines the step wrote to, and on each the spans it added.
TouchedLines == (Len(md.r.lines) + 1)..Len(AllLines(md'.r))
AddedSpans(i) ==
    LET line == AllLines(md'.r)[i]
        from == IF i = Len(md.r.lines) + 1 THEN Len(md.r.current_line) ELSE 0
    IN  SubSeq(line, from + 1, Len(line))
IsFragment(sp) == sp.kind = "long"
FragmentsOn(i) == SelectSeq(AddedSpans(i), IsFragment)

RECURSIVE FragmentText(_, _)
FragmentText(i, last) ==
    IF i > last THEN <<>> ELSE FragmentsOn(i)[1].content \o FragmentText(i + 1, last)

\* One fragment on each line written to, together the word; each fragment
\* after the first is the first span after the prefix of a new line.
BrokenIntoLines ==
    /\ TouchedLines # {}
    /\ \A i \in TouchedLines : Len(FragmentsOn(i)) = 1
    /\ FragmentText(Len(md.r.lines) + 1, Len(AllLines(md'.r))) = md'.arg
    /\ \A i \in TouchedLines :
          i > Len(md.r.lines) + 1 =>
              \A j \in 1..(Len(AllLines(md'.r)[i]) - 1) : IsPrefixSpan(AllLines(md'.r)[i][j])

FragmentBudget == Max(SatSub(md.r.max_width, PrefixWidth(md.r)), 1)

WideFragmentInOneCell ==
    /\ md.started /\ md.last = "Text" /\ md.arg = TextWidePair /\ md.indent = 9 /\ md.n = 1
    /\ \E j \in 1..Len(md.r.current_line) :
          md.r.current_line[j].kind = "long" /\ SpanWidth(md.r.current_line[j]) = 2


(***************************************************************************)
(* Claim about termination.  The event loop of render_markdown takes the    *)
(* next event of a finite stream at every turn, so the steps of NextWrap    *)
(* are taken for as long as one is possible.                                *)
(***************************************************************************)
SpecWrapFair == InitWrap /\ [][NextWrap]_vars /\ WF_vars(NextWrap)

CodeLineAB == <<"a", "\n", "\n", "b">>
CodeLineBang == <<"f", "!", "\n", "a", "b">>
CodeLineEnd == <<"a", "b", "\n">>
CodeBlockTexts == {CodeLineAB, CodeLineBang, CodeLineEnd}
CodeConfigs == {[width |-> 12, indent |-> 0], [width |-> 12, indent |-> 2]}
FailingSets == {{}, {<<>>}}

InitCode ==
    /\ tr = NoTruncCall
    /\ lk = NoLinkRender
    /\ rs = NoRenders
    /\ \E cfg \in CodeConfigs : \E failing \in FailingSets :
          md = [started |-> TRUE,
                r |-> [RendererNew(cfg.width, cfg.indent) EXCEPT !.failing = failing],
                width |-> cfg.width, indent |-> cfg.indent,
                n |-> 0, last |-> "None", done |-> FALSE, doc |-> <<>>,
                open |-> <<>>, para |-> FALSE]

\* MdEvent::Start(Tag::BlockQuote), untagged
CdStartBlockQuote ==
    /\ BlockReady /\ md.open = <<>>
    /\ md' = [MbAfter(StartTag(md.r, [t |-> "BlockQuote", kind |-> <<>>]), "StartBlockQuote")
              EXCEPT !.open = Append(@, "Quote")]
    /\ UNCHANGED <<tr, lk, rs>>

\* MdEvent::Start(Tag::CodeBlock)
CdStartCodeBlock ==
    /\ BlockReady
    /\ \E lang \in CodeLangs :
          md' = [MbAfter(StartTag(md.r, [t |-> "CodeBlock", lang |-> lang]), "StartCodeBlock")
                 EXCEPT !.open = Append(@, "Code")]
    /\ UNCHANGED <<tr, lk, rs>>

\* MdEvent::Text in a code block
CdCodeText ==
    /\ MdReady /\ InCode /\ md.last # "Text"
    /\ \E t \in CodeBlockTexts : md' = MbAfter(Text(md.r, t), "Text")
    /\ UNCHANGED <<tr, lk, rs>>

\* MdEvent::SoftBreak in a code block
CdCodeSoftBreak ==
    /\ MdReady /\ InCode /\ md.last \notin {"SoftBreak", "HardBreak"}
    /\ md' = MbAfter(SoftBreak(md.r), "SoftBreak")
    /\ UNCHANGED <<tr, lk, rs>>

\* MdEvent::HardBreak in a code block
CdCodeHardBreak ==
    /\ MdReady /\ InCode /\ md.last \notin {"SoftBreak", "HardBreak"}
    /\ md' = MbAfter(HardBreak(md.r), "HardBreak")
    /\ UNCHANGED <<tr, lk, rs>>

\* MdEvent::End(TagEnd::CodeBlock): the block is rendered, which initialises
\* the assets cell if it has text.
CdEndCodeBlock ==
    /\ MdReady /\ InCode
    /\ md' = [MbAfter(EndTag(md.r, [t |-> "CodeBlock"]), "EndCodeBlock")
              EXCEPT !.open = Pop(@)]
    /\ rs' = IF md.r.code_block_buf # <<>> THEN [rs EXCEPT !.assets = <<SyntectAssets>>] ELSE rs
    /\ UNCHANGED <<tr, lk>>

\* MdEvent::Text of a paragraph after a block
CdText ==
    /\ BlockReady /\ md.last = "EndCodeBlock"
    /\ md' = [MbAfter(Text(md.r, TextAb), "Text") EXCEPT !.para = TRUE]
    /\ UNCHANGED <<tr, lk, rs>>

\* The end of the event stream: the End events of the open paragraph and
\* quote, then renderer.finish()
CdFinish ==
    /\ md.started /\ ~md.done /\ ~InCode
    /\ LET r1 == IF md.para THEN EndTag(md.r, [t |-> "Paragraph"]) ELSE md.r
           r2 == CloseAll(r1, md.open)
       IN  md' = [md EXCEPT !.r = r2, !.done = TRUE, !.doc = <<Finish(r2)>>,
                            !.open = <<>>, !.para = FALSE]
    /\ UNCHANGED <<tr, lk, rs>>

NextCode ==
    \/ CdStartBlockQuote
    \/ CdStartCodeBlock
    \/ CdCodeText
    \/ CdCodeSoftBreak
    \/ CdCodeHardBreak
    \/ CdEndCodeBlock
    \/ CdText
    \/ CdFinish

SpecCode == InitCode /\ [][NextCode]_vars

(***************************************************************************)
(* Claims about code blocks.                                                *)
(***************************************************************************)
CodeEndStep == md'.n = md.n + 1 /\ md'.last = "EndCodeBlock"
CodeBufferStep == md'.n = md.n + 1 /\ md.r.in_code_block /\ md'.r.in_code_block

\* The raw lines of the buffer, and the lines the end of the block appended
\* before its blank separator.
RawLines == IF md.r.code_block_buf = <<>> THEN <<>> ELSE SplitLines(md.r.code_block_buf, <<>>)
RenderedCode ==
    IF Len(md'.r.lines) - 1 < Len(md.r.lines) + 1 THEN <<>>
    ELSE SubSeq(md'.r.lines, Len(md.r.lines) + 1, Len(md'.r.lines) - 1)

IsContentSpan(sp) == ~IsPrefixSpan(sp)
ContentOf(line) == SelectSeq(line, IsContentSpan)
PrefixFirst(line) ==
    \A j \in 1..Len(line) : IsPrefixSpan(line[j]) => \A k \in 1..j : IsPrefixSpan(line[k])
\* The prefix a line starts with, as start_line lays it down.
CodePrefix == StartLine(FlushLine(md.r)).current_line
HighlightFails(raw_line) ==
    ~HighlightOutcome(md.r, ResolveSyntax(DefaultSyntaxes, md.r.code_block_lang), raw_line).ok

\* One separator: the last line is blank and the line before it is not.
OneBlankLast(lines) ==
    /\ lines # <<>> /\ IsBlank(lines[Len(lines)])
    /\ Len(lines) >= 2 => ~IsBlank(lines[Len(lines) - 1])

\* Rendered line i is raw line i: every raw line has left a line.
LineForLine == Len(RenderedCode) = Len(RawLines)
\* Every raw line leaves a line: the prefix is not empty, or no raw line is.
EveryLineVisible ==
    CodePrefix # <<>> \/ \A i \in 1..Len(RawLines) : RawLines[i] # <<>>

C26_CodeLineForLine ==
    [][/\ CodeBufferStep =>
             /\ AllLines(md'.r) = AllLines(md.r)
             /\ Len(md'.r.code_block_buf) > Len(md.r.code_block_buf)
       /\ CodeEndStep =>
             /\ OneBlankLast(md'.r.lines)
             /\ md.r.code_block_buf # <<>> =>
                   /\ LineForLine
                   /\ \A i \in 1..Len(RawLines) :
                         LineText(ContentOf(RenderedCode[i])) = RawLines[i]]_vars

\* The same where every raw line leaves a line.
CodeLineForLineWithPrefix ==
    [][/\ CodeBufferStep =>
             /\ AllLines(md'.r) = AllLines(md.r)
             /\ Len(md'.r.code_block_buf) > Len(md.r.code_block_buf)
       /\ CodeEndStep =>
             /\ OneBlankLast(md'.r.lines)
             /\ (md.r.code_block_buf # <<>> /\ EveryLineVisible) =>
                   /\ LineForLine
                   /\ \A i \in 1..Len(RawLines) :
                         LineText(ContentOf(RenderedCode[i])) = RawLines[i]]_vars

\* With no indent and outside quotes the empty raw line of a block leaves
\* no line: three raw lines, two rendered lines.
EmptyCodeLineDropped ==
    /\ md.started /\ md.n = 3 /\ md.last = "EndCodeBlock" /\ md.indent = 0
    /\ Len(md.r.lines) = 3
    /\ LineText(md.r.lines[1]) = <<"a">>
    /\ LineText(md.r.lines[2]) = <<"b">>
    /\ IsBlank(md.r.lines[3])


(***************************************************************************)
(* List items, nested one level, in and out of a quote, with text that      *)
(* wraps, breaks and paragraphs.  md.open is the stack of open containers.  *)
(***************************************************************************)
MaxItemDepth == 2
ItemDepth == Cardinality({i \in 1..Len(md.open) : md.open[i] = "Item"})
ListTexts == {TextAb, TextWrap}

InitList ==
    /\ tr = NoTruncCall
    /\ lk = NoLinkRender
    /\ rs = NoRenders
    /\ md = [started |-> TRUE, r |-> RendererNew(QuoteConfig.width, QuoteConfig.indent),
             width |-> QuoteConfig.width, indent |-> QuoteConfig.indent,
             n |-> 0, last |-> "None", done |-> FALSE, doc |-> <<>>,
             open |-> <<>>, para |-> FALSE]

\* MdEvent::Start(Tag::BlockQuote), untagged, around a list
LsStartBlockQuote ==
    /\ BlockReady /\ md.open = <<>>
    /\ md' = [MbAfter(StartTag(md.r, [t |-> "BlockQuote", kind |-> <<>>]), "StartBlockQuote")
              EXCEPT !.open = Append(@, "Quote")]
    /\ UNCHANGED <<tr, lk, rs>>

\* MdEvent::Start(Tag::Item): at block level, or in an item after its text
LsStartItem ==
    /\ MdReady /\ ItemDepth < MaxItemDepth
    /\ Top = "Item" \/ ~md.para
    /\ md' = [MbAfter(StartTag(md.r, [t |-> "Item"]), "StartItem")
              EXCEPT !.open = Append(@, "Item"), !.para = FALSE]
    /\ UNCHANGED <<tr, lk, rs>>

\* MdEvent::End(TagEnd::Item)
LsEndItem ==
    /\ MdReady /\ Top = "Item"
    /\ md' = [MbAfter(EndTag(md.r, [t |-> "Item"]), "EndItem")
              EXCEPT !.open = Pop(@), !.para = FALSE]
    /\ UNCHANGED <<tr, lk, rs>>

\* MdEvent::Text
LsText ==
    /\ MdReady /\ md.last # "Text"
    /\ \E t \in ListTexts :
          md' = [MbAfter(Text(md.r, t), "Text") EXCEPT !.para = TRUE]
    /\ UNCHANGED <<tr, lk, rs>>

\* MdEvent::HardBreak
LsHardBreak ==
    /\ MdReady /\ md.last = "Text"
    /\ md' = MbAfter(HardBreak(md.r), "HardBreak")
    /\ UNCHANGED <<tr, lk, rs>>

\* MdEvent::End(TagEnd::Paragraph)
LsEndParagraph ==
    /\ MdReady /\ md.para
    /\ md' = [MbAfter(EndTag(md.r, [t |-> "Paragraph"]), "EndParagraph") EXCEPT !.para = FALSE]
    /\ UNCHANGED <<tr, lk, rs>>

\* The end of the event stream: the End events of the open paragraph and
\* containers, then renderer.finish()
LsFinish ==
    /\ md.started /\ ~md.done
    /\ LET r1 == IF md.para /\ Top # "Item" THEN EndTag(md.r, [t |-> "Paragraph"]) ELSE md.r
           r2 == CloseAll(r1, md.open)
       IN  md' = [md EXCEPT !.r = r2, !.done = TRUE, !.doc = <<Finish(r2)>>,
                            !.open = <<>>, !.para = FALSE]
    /\ UNCHANGED <<tr, lk, rs>>

NextList ==
    \/ LsStartBlockQuote
    \/ LsStartItem
    \/ LsEndItem
    \/ LsText
    \/ LsHardBreak
    \/ LsEndParagraph
    \/ LsFinish

SpecList == InitList /\ [][NextList]_vars

(***************************************************************************)
(* Claim about the list prefix.                                             *)
(***************************************************************************)
\* The line starts, after the indent and the quote border, with a list
\* prefix span of one cell.
HasListPrefix(line) ==
    \E k \in 1..Len(line) :
        /\ line[k].kind = "list" /\ SpanWidth(line[k]) = 1
        /\ \A j \in 1..(k - 1) : line[j].kind \in {"indent", "border"}

\* The cells the renderer counts on a line: two for a border span, the
\* width of every other span.
RECURSIVE CountedWidth(_)
CountedWidth(line) ==
    IF line = <<>> THEN 0
    ELSE (IF Head(line).kind = "border" THEN BorderWidth ELSE SpanWidth(Head(line)))
         + CountedWidth(Tail(line))

PrefixedAndCounted(line) ==
    /\ HasListPrefix(line)
    /\ HasSpanOfKind(line, {"long"}) \/ CountedWidth(line) <= md.r.max_width

\* A step that handles an event inside an item, and the open of an item.
ItemContentStep ==
    /\ md'.n = md.n + 1 /\ ItemDepth >= 1 /\ Len(md'.open) = Len(md.open)
ItemOpenStep == md'.n = md.n + 1 /\ md'.last = "StartItem"

\* C27: from the open of a list item to its matching close, the part of
\* the item after the close of an item nested in it included, every line
\* started that is not blank begins, after the indent and the quote border,
\* with the one-cell list prefix, and the prefix is counted in the wrap
\* budget; the open of an item flushes the line under construction.
C27_ItemLinesHavePrefix ==
    [][/\ ItemContentStep =>
             \A i \in NewLines :
                 ~IsBlank(AllLines(md'.r)[i]) => PrefixedAndCounted(AllLines(md'.r)[i])
       /\ ItemOpenStep =>
             md'.r.current_line = <<>> /\ md'.r.lines = AllLines(md.r)]_vars

\* The same for the lines started while the renderer holds a list prefix,
\* which it does from the open of an item to the next close of any item.
PrefixWhileListPrefixSet ==
    [][/\ (ItemContentStep /\ md.r.list_prefix # <<>>) =>
             \A i \in NewLines :
                 ~IsBlank(AllLines(md'.r)[i]) => PrefixedAndCounted(AllLines(md'.r)[i])
       /\ ItemOpenStep =>
             md'.r.current_line = <<>> /\ md'.r.lines = AllLines(md.r)]_vars

\* Text of an item after the close of a nested item: its line has no list
\* prefix.
OuterItemTextWithoutPrefix ==
    /\ md.started /\ md.n = 5 /\ md.last = "Text" /\ md.open = <<"Item">>
    /\ md.r.list_prefix = <<>>
    /\ md.r.current_line # <<>>
    /\ ~HasSpanOfKind(md.r.current_line, {"list"})


(***************************************************************************)
(* Claim about the rule.                                                    *)
(***************************************************************************)
RuleStep == md'.n = md.n + 1 /\ md'.last = "Rule"

\* The prefix spans start_line pushes in the state of the renderer.
PrefixSpansOf(r) == StartLine([r EXCEPT !.current_line = <<>>, !.current_width = 0]).current_line

\* What a rule leaves: the pending line flushed, one line of the prefix and
\* one divider span, one blank line, nothing under construction.
RuleLinesAdded(divider_ok(_)) ==
    LET before == AllLines(md.r)
        after == md'.r.lines
        n == Len(before)
        prefix == PrefixSpansOf(md.r)
    IN  /\ md'.r.current_line = <<>>
        /\ Len(after) = n + 2
        /\ SubSeq(after, 1, n) = before
        /\ after[n + 2] = <<>>
        /\ Len(after[n + 1]) = Len(prefix) + 1
        /\ SubSeq(after[n + 1], 1, Len(prefix)) = prefix
        /\ after[n + 1][Len(prefix) + 1].kind = "rule"
        /\ divider_ok(after[n + 1][Len(prefix) + 1])

DividerFillsWidth(sp) == SpanWidth(sp) = md.r.max_width - PrefixWidth(md.r)
DividerRepeats(sp) ==
    sp.content = RepeatStr(RuleGlyph, Max(SatSub(md.r.max_width, PrefixWidth(md.r)), MinRuleWidth))
DividerIsEmpty(sp) == SpanWidth(sp) = 0

\* C28: a rule flushes the line under construction, then appends exactly
\* one divider line, the current prefix followed by one divider span that is
\* max_width - prefix_width cells wide, and then one blank line.
C28_RuleDivider == [][RuleStep => RuleLinesAdded(DividerFillsWidth)]_vars

\* The same with the divider the code builds: the divider string repeated
\* max(max_width - prefix_width, 8) times.
RuleDividerRepeated == [][RuleStep => RuleLinesAdded(DividerRepeats)]_vars

\* The divider string of the source is empty: the divider span has no cells.
RuleDividerHasNoCells == [][RuleStep => RuleLinesAdded(DividerIsEmpty)]_vars

\* A rule has been rendered in a quote.
RuleInQuoteRendered ==
    /\ md.started /\ md.last = "Rule" /\ md.r.in_block_quote
    /\ Len(md.r.lines) >= 2
    /\ HasSpanOfKind(md.r.lines[Len(md.r.lines) - 1], {"rule"})
    /\ HasSpanOfKind(md.r.lines[Len(md.r.lines) - 1], {"border"})


(***************************************************************************)
(* Claim about the cases of truncate_label.                                 *)
(***************************************************************************)
\* Character j of the label is accumulated: the width of the characters
\* before it, its own width and the three cells of the dots fit in w.
Accumulated(label, j, w) ==
    DisplayWidth(SubSeq(label, 1, j - 1)) + CharWidth(label[j]) + 3 <= w

\* The length of the leading run of accumulated characters.
RunLength(label, w) ==
    CHOOSE k \in 0..Len(label) :
        /\ \A j \in 1..k : Accumulated(label, j, w)
        /\ k < Len(label) => ~Accumulated(label, k + 1, w)

\* C29: for w > 0, truncate_label(label, w) returns the label, not
\* truncated, when the label is at most w cells wide; otherwise w dots,
\* truncated, when w <= 3; otherwise the leading run of whole characters
\* taken while the running width, the next character's width and 3 are at
\* most w, followed by three dots, truncated.  The text is whole characters
\* of the label and dots: a wide character that does not fit is left out.
C29_TruncateLabelCases ==
    (tr.called /\ tr.max_width > 0) =>
        IF DisplayWidth(tr.label) <= tr.max_width
        THEN tr.text = tr.label /\ ~tr.truncated
        ELSE IF tr.max_width <= 3
        THEN tr.text = [i \in 1..tr.max_width |-> "."] /\ tr.truncated
        ELSE /\ tr.text = SubSeq(tr.label, 1, RunLength(tr.label, tr.max_width)) \o Dots
             /\ tr.truncated
             /\ DisplayWidth(tr.text) <= tr.max_width

\* A truncation that stops before a wide glyph for which one cell is left:
\* the text is one cell narrower than w.
C29_Witness ==
    /\ tr.called /\ tr.truncated /\ tr.max_width > 3
    /\ Len(tr.text) = 4
    /\ DisplayWidth(tr.text) = tr.max_width - 1
    /\ tr.label[Len(tr.text) - 2] = WideGlyph


(***************************************************************************)
(* Claim about the fallback suffix.                                         *)
(***************************************************************************)
BaseLabel(last) == IF last.link.label = <<>> THEN last.link.url ELSE last.link.label
SuffixOf(last) == last.link.fallback_suffix[1]
LabelTruncated(last) == DisplayWidth(BaseLabel(last)) > last.area.width
SuffixApplies(last) ==
    /\ ~Interactive(last) /\ ~ZeroArea(last.area)
    /\ last.link.fallback_suffix # <<>> /\ LabelTruncated(last)

SuffixTooWideRendered ==
    /\ lk.last # <<>> /\ SuffixApplies(LastRender)
    /\ DisplayWidth(SuffixOf(LastRender)) > LastRender.area.width
SuffixOnFittingLabelRendered ==
    /\ lk.last # <<>> /\ ~Interactive(LastRender) /\ ~ZeroArea(LastRender.area)
    /\ LastRender.link.fallback_suffix # <<>> /\ ~LabelTruncated(LastRender)
    /\ LastRender.label = <<"a", "b">>


(***************************************************************************)
(* Claim about the style of a link.                                         *)
(***************************************************************************)
\* The style of the claim: what the link's settings select.
StyleOfSettings(link) ==
    IF link.focused /\ link.hover_style # <<>> THEN StylePatch(link.style, link.hover_style[1])
    ELSE IF link.focused THEN StylePatch(link.style, [fg |-> "None", mods |-> {"BOLD"}])
    ELSE link.style

\* Cell x holds a character of the label of the render: in a hyperlink every
\* cell of the label, in plain text the first cell of each character that
\* the buffer has room for.
HoldsLabel(last, x) ==
    LET offset == x - last.area.x
    IN  /\ offset >= 0 /\ offset < last.label_width
        /\ \/ last.hyperlink
           \/ \E k \in 1..Len(last.label) :
                  /\ DisplayWidth(SubSeq(last.label, 1, k - 1)) = offset
                  /\ CharWidth(last.label[k]) > 0
                  /\ offset + CharWidth(last.label[k]) <= Min(BufWidth - last.area.x, last.area.width)

\* C31: every cell a render paints the label into is styled with the base
\* style patched with the hover style when the link is focused and has a
\* hover style, with the base style patched with bold when it is focused
\* without a hover style, with the base style as it is when it is not
\* focused; a link whose style the caller has not set has the blue,
\* underlined base style.
C31_PaintedStyle ==
    [][(lk'.last # <<>> /\ ~ZeroArea(lk'.last[1].area)) =>
          /\ \A x \in DOMAIN lk.buf :
                 HoldsLabel(lk'.last[1], x) =>
                     lk'.buf[x].style = StylePatch(lk.buf[x].style, StyleOfSettings(lk'.last[1].link))
          /\ \A l \in LinkLabels :
                 LinkNew(l, Url1).style = [fg |-> "Blue", mods |-> {"UNDERLINED"}]]_vars

\* A focused link with a hover style and a base style of the caller has
\* been painted as plain text over blank cells: red, not underlined, not bold.
C31_Witness ==
    /\ lk.last # <<>> /\ ~ZeroArea(LastRender.area)
    /\ LastRender.link.focused /\ LastRender.link.hover_style # <<>>
    /\ LastRender.link.style = PlainStyle
    /\ lk.buf[LastRender.area.x].style = [fg |-> "Red", mods |-> {}]

\* A focused link without hover style is painted bold on its base style.
FocusedLinkPaintedBold ==
    /\ lk.last # <<>> /\ ~ZeroArea(LastRender.area)
    /\ LastRender.link.focused /\ LastRender.link.hover_style = <<>>
    /\ lk.buf[LastRender.area.x].style = [fg |-> "Blue", mods |-> {"UNDERLINED", "BOLD"}]


(***************************************************************************)
(* Claim about the trimming of a segment's label.                           *)
(***************************************************************************)
\* The characters of a label that are not whitespace, by position.
InkAt(label) == {j \in 1..Len(label) : ~IsWhitespace(label[j])}
FirstInk(label) == CHOOSE j \in InkAt(label) : \A k \in InkAt(label) : j <= k
LastInk(label) == CHOOSE j \in InkAt(label) : \A k \in InkAt(label) : j >= k

\* C32: a draw shows its segment's label from the first to the last
\* character that is not whitespace, starts at the segment's column plus the
\* display width of the whitespace before that first character, and is as
\* wide as that shown label, clipped to the columns left in the viewport; a
\* segment whose label is empty or whitespace only has no draw.
C32_TrimmedLabelDraw ==
    lk.painted =>
        /\ \A k \in 1..Len(lk.draws) :
              LET d == lk.draws[k]
                  seg == lk.links[d.index]
                  first == FirstInk(seg.label)
                  shown == SubSeq(seg.label, first, LastInk(seg.label))
                  col == seg.col + DisplayWidth(SubSeq(seg.label, 1, first - 1))
              IN  /\ InkAt(seg.label) # {}
                  /\ d.label = shown
                  /\ d.area.x = Viewport.x + col
                  /\ d.area.width = Min(DisplayWidth(shown), Viewport.width - col)
        /\ \A i \in 1..Len(lk.links) :
              InkAt(lk.links[i].label) = {}
                  => \A k \in 1..Len(lk.draws) : lk.draws[k].index # i

\* A paint of the list with wide whitespace: the first label is drawn two
\* columns right of its segment's column, without the whitespace around it;
\* the empty and the whitespace-only segments are not drawn; the last label
\* is drawn one column right, two cells wide.
C32_Witness ==
    /\ lk.painted /\ Len(lk.links) = 4 /\ lk.links[1].label[1] = WideSpace
    /\ Len(lk.draws) = 2
    /\ lk.draws[1].index = 1 /\ lk.draws[1].label = <<"a">>
    /\ lk.draws[1].area.x = Viewport.x + 2 /\ lk.draws[1].area.width = 1
    /\ lk.draws[2].index = 4 /\ lk.draws[2].label = <<WideGlyph>>
    /\ lk.draws[2].area.x = Viewport.x + 1 /\ lk.draws[2].area.width = 2


(***************************************************************************)
(* Specification of resolve_syntax as a function of its arguments: a        *)
(* process resolves the syntax of one code block after the other.  In this  *)
(* specification tr holds the syntax set, the language token of the last    *)
(* call and the syntax it returned.                                         *)
(***************************************************************************)
\* Syntaxes a set may hold besides plain text: one named "language-rust",
\* one with the file extension "language-rs", and Python.
PrefixNamedSyntax == Syntax("Prefix Named", {PrefixedToken("rust")}, {})
PrefixExtensionSyntax == Syntax("Prefix Extension", {}, {PrefixedToken("rs")})
PythonSyntax == Syntax("Python", {Token("python")}, {Token("py")})
SyntaxSets ==
    {S \cup {PlainTextSyntax} :
        S \in SUBSET {RustSyntax, PrefixNamedSyntax, PrefixExtensionSyntax, PythonSyntax}}

LanguageTokens ==
    {Token(n) : n \in {"rs", "rust", "py", "none", ""}}
    \cup {PrefixedToken(n) : n \in {"rs", "rust", "python", "none", ""}}
Languages == {<<>>} \cup {<<tok>> : tok \in LanguageTokens}

InitSyntax ==
    /\ \E syntaxes \in SyntaxSets :
          tr = [called |-> FALSE, syntaxes |-> syntaxes, lang |-> <<>>, syntax |-> "Plain Text"]
    /\ lk = NoLinkRender
    /\ md = NoMarkdown
    /\ rs = NoRenders

ResolveCall ==
    /\ \E lang \in Languages :
          tr' = [tr EXCEPT !.called = TRUE, !.lang = lang,
                           !.syntax = ResolveSyntax(tr.syntaxes, lang)]
    /\ UNCHANGED <<lk, md, rs>>

NextSyntax == ResolveCall

SpecSyntax == InitSyntax /\ [][NextSyntax]_vars

(***************************************************************************)
(* Claim about the order of the lookups.                                    *)
(***************************************************************************)
\* The lookups of the claim, in its order: the syntaxes matching the token,
\* the token without a leading "language-", the token as a file extension.
MatchesToken(tok) == {sx.name : sx \in {x \in tr.syntaxes : tok \in x.names \cup x.extensions}}
MatchesStripped(tok) == IF tok.prefixed THEN MatchesToken(Token(tok.name)) ELSE {}
MatchesExtension(tok) == {sx.name : sx \in {x \in tr.syntaxes : tok \in x.extensions}}

\* C33: the syntax of a code block is the one matching the language token;
\* when there is none, the one matching the token without a leading
\* "language-"; when there is none, the one whose file extension is the
\* token; when there is none, plain text.  Without a language token it is
\* plain text.
C33_SyntaxLookupOrder ==
    tr.called =>
        IF tr.lang = <<>> THEN tr.syntax = "Plain Text"
        ELSE LET tok == tr.lang[1]
             IN  IF MatchesToken(tok) # {} THEN tr.syntax \in MatchesToken(tok)
                 ELSE IF MatchesStripped(tok) # {} THEN tr.syntax \in MatchesStripped(tok)
                 ELSE IF MatchesExtension(tok) # {} THEN tr.syntax \in MatchesExtension(tok)
                 ELSE tr.syntax = "Plain Text"

\* "language-rust" resolved in a set that holds a syntax of that name and
\* Rust: the syntax of the whole token is taken.
C33_Witness ==
    /\ tr.called /\ tr.lang = <<PrefixedToken("rust")>>
    /\ {RustSyntax, PrefixNamedSyntax} \subseteq tr.syntaxes
    /\ tr.syntax = "Prefix Named"

\* "language-rs" resolved to Rust with the default syntaxes, and an unknown
\* token resolved to plain text.
PrefixStrippedResolved ==
    /\ tr.called /\ tr.syntaxes = DefaultSyntaxes
    /\ tr.lang = <<PrefixedToken("rs")>> /\ tr.syntax = "Rust"
UnknownTokenResolved ==
    /\ tr.called /\ tr.lang = <<Token("none")>> /\ tr.syntax = "Plain Text"

(***************************************************************************)
(* IssueConversation: the caches of rendered documents, the actions that    *)
(* change what they were rendered from, and the paint.  In this             *)
(* specification rs is the component: the struct's fields current (the      *)
(* seed), cache_number, cache_comments, markdown_cache (per comment id),    *)
(* body_cache, body_cache_number, markdown_width, screen, message_keys,     *)
(* error and loading; selected and rows are the selection and the row       *)
(* count of list_state; term is the width of area.main_content; inflight    *)
(* counts the spawned fetches that have not answered; painted is what the   *)
(* render of the last step put into the body pane; last names the last      *)
(* step when it was a paint or the response of a fetch.                     *)
(***************************************************************************)
MaxIssues == 2          \* issues the user enters
MaxInFlight == 1        \* fetches of one issue that have not answered yet
IssueNumbers == 1..MaxIssues
TermWidths == {28, 40}
Comment(id, body) == [id |-> id, body |-> body]
FirstCommentOf(number) == 10 * number + 1
PostedCommentId == FirstCommentOf(1) + 1
CommentIds == {FirstCommentOf(n) : n \in IssueNumbers} \cup {PostedCommentId}
BodyTexts == {TextAb, TextTwoWords}

\* The seeds EnterIssueDetails carries: issue 1 with a body, the other
\* issues without.
Seeds ==
    {[number |-> 1, body |-> <<b>>] : b \in BodyTexts}
    \cup {[number |-> n, body |-> <<>>] : n \in IssueNumbers \ {1}}

\* What a fetch of the comments of an issue may answer: no comment, or its
\* first comment.
CommentLists(number) == {<<>>, <<Comment(FirstCommentOf(number), TextAb)>>}

NoCache == [id \in CommentIds |-> <<>>]

\* render_markdown of a body that is one paragraph of text.
RenderMarkdown(text, width, indent) ==
    Finish(EndTag(Text(StartTag(RendererNew(width, indent), [t |-> "Paragraph"]), text),
                  [t |-> "Paragraph"]))

InitConv ==
    /\ tr = NoTruncCall
    /\ lk = NoLinkRender
    /\ md = NoMarkdown
    /\ \E term \in TermWidths :
          rs = [current |-> <<>>, cache_number |-> <<>>, cache_comments |-> <<>>,
                markdown_cache |-> NoCache, body_cache |-> <<>>, body_cache_number |-> <<>>,
                markdown_width |-> 0, screen |-> "Details", message_keys |-> <<>>,
                selected |-> <<>>, rows |-> 0, error |-> FALSE, loading |-> {},
                inflight |-> [n \in IssueNumbers |-> 0], term |-> term,
                painted |-> <<>>, last |-> [action |-> "None"]]

IsCurrent(c, number) == c.current # <<>> /\ c.current[1].number = number

\* fetch_comments: nothing when the issue is marked loading, else the mark
\* and a spawned fetch.
FetchComments(c, number) ==
    IF number \in c.loading THEN c
    ELSE [c EXCEPT !.loading = @ \cup {number}, !.error = FALSE,
                   !.inflight[number] = @ + 1]

\* Action::EnterIssueDetails, after the seed is stored: the comment caches
\* of another issue are dropped, then the comments are fetched unless cached.
EnterCaches(c, number) ==
    IF c.cache_number # <<number>>
    THEN [c EXCEPT !.cache_number = <<>>, !.cache_comments = <<>>, !.markdown_cache = NoCache]
    ELSE c

EnterFetch(c, number) ==
    IF c.cache_number = <<number>>
    THEN [c EXCEPT !.loading = @ \ {number}, !.error = FALSE]
    ELSE FetchComments(c, number)

EnterIssueDetails(c, seed) ==
    EnterFetch(EnterCaches([c EXCEPT !.current = <<seed>>, !.body_cache = <<>>,
                                     !.body_cache_number = <<seed.number>>], seed.number),
               seed.number)

\* Mutant: the comments of the response are cached whatever the current
\* issue is.
IssueCommentsLoadedUnchecked(c, number, comments) ==
    [c EXCEPT !.loading = @ \ {number}, !.cache_number = <<number>>,
              !.cache_comments = comments, !.markdown_cache = NoCache,
              !.body_cache = <<>>, !.error = FALSE]

\* Action::IssueCommentsLoaded
IssueCommentsLoaded(c, number, comments) ==
    IF IsCurrent(c, number)
    THEN [c EXCEPT !.loading = @ \ {number}, !.cache_number = <<number>>,
                   !.cache_comments = comments, !.markdown_cache = NoCache,
                   !.body_cache = <<>>, !.error = FALSE]
    ELSE [c EXCEPT !.loading = @ \ {number}]

\* Action::IssueCommentsError
IssueCommentsError(c, number) ==
    [c EXCEPT !.loading = @ \ {number}, !.error = @ \/ IsCurrent(c, number)]

\* Action::IssueCommentPosted
IssueCommentPosted(c, number, comment) ==
    IF ~IsCurrent(c, number) THEN c
    ELSE IF c.cache_number = <<number>>
    THEN [c EXCEPT !.cache_comments = Append(@, comment)]
    ELSE [c EXCEPT !.cache_number = <<number>>, !.cache_comments = <<comment>>,
                   !.markdown_cache = NoCache, !.body_cache = <<>>]

\* Action::IssueCommentPatched
IssueCommentPatched(c, issue_number, comment) ==
    IF IsCurrent(c, issue_number)
       /\ \E i \in 1..Len(c.cache_comments) : c.cache_comments[i].id = comment.id
    THEN [c EXCEPT !.cache_comments =
                       [i \in 1..Len(@) |-> IF @[i].id = comment.id THEN comment ELSE @[i]],
                   !.markdown_cache[comment.id] = <<>>]
    ELSE c

\* build_items: the width of the documents
ItemsWidth(body_area_width) == Max(SatSub(body_area_width, 4), MinWidth)

\* Mutant: a change of the width leaves the cached documents in place.
BuildWidthKeepingCaches(c, width) ==
    [c EXCEPT !.message_keys = <<>>, !.markdown_width = width]

\* build_items: the caches are dropped when the width has changed
BuildWidth(c, width) ==
    IF c.markdown_width # width
    THEN [c EXCEPT !.message_keys = <<>>, !.markdown_width = width,
                   !.markdown_cache = NoCache, !.body_cache = <<>>,
                   !.body_cache_number = <<>>]
    ELSE [c EXCEPT !.message_keys = <<>>]

\* build_items: the item of the issue body
BuildBody(c, width) ==
    IF c.current[1].body = <<>> \/ Trim(c.current[1].body[1]) = <<>> THEN c
    ELSE [c EXCEPT !.body_cache_number = <<c.current[1].number>>,
                   !.body_cache =
                       IF c.body_cache_number = <<c.current[1].number>> /\ c.body_cache # <<>>
                       THEN c.body_cache
                       ELSE <<RenderMarkdown(c.current[1].body[1], width, 2)>>,
                   !.message_keys =
                       Append(@, [kind |-> "IssueBody", id |-> c.current[1].number])]

\* build_items: the items of the comments, in the order of their creation
RECURSIVE BuildCommentsFrom(_, _, _)
BuildCommentsFrom(c, i, width) ==
    IF i > Len(c.cache_comments) THEN c
    ELSE BuildCommentsFrom(
             [c EXCEPT !.markdown_cache[c.cache_comments[i].id] =
                           IF @ # <<>> THEN @
                           ELSE <<RenderMarkdown(c.cache_comments[i].body, width, 2)>>,
                       !.message_keys =
                           Append(@, [kind |-> "Comment", id |-> c.cache_comments[i].id])],
             i + 1, width)

BuildComments(c, width) ==
    IF c.cache_number = <<c.current[1].number>> THEN BuildCommentsFrom(c, 1, width) ELSE c

\* ListState::selected_checked: the selection when it is a row of the list
SelectedChecked(c) == IF c.selected # <<>> /\ c.selected[1] < c.rows THEN c.selected ELSE <<>>

\* build_items: the selection, clamped to the items; the error line is an
\* item without a message key
ItemCount(c) == (IF c.error THEN 1 ELSE 0) + Len(c.message_keys)

BuildSelect(c, items) ==
    IF items = 0 THEN [c EXCEPT !.selected = <<>>, !.rows = 0]
    ELSE [c EXCEPT !.selected = <<Min(IF SelectedChecked(c) = <<>> THEN 0 ELSE c.selected[1],
                                     items - 1)>>,
                   !.rows = items]

BuildItemsOfCurrent(c, width) == BuildComments(BuildBody(c, width), width)

BuildItemsSelected(c) == BuildSelect(c, ItemCount(c))

\* build_items
BuildItems(c, body_area_width) ==
    IF c.current = <<>>
    THEN [BuildWidth(c, ItemsWidth(body_area_width)) EXCEPT
             !.selected = <<>>, !.rows = (IF c.error THEN 2 ELSE 1)]
    ELSE BuildItemsSelected(
             BuildItemsOfCurrent(BuildWidth(c, ItemsWidth(body_area_width)),
                                 ItemsWidth(body_area_width)))

\* selected_body_render
SelectedBodyRender(c) ==
    IF SelectedChecked(c) = <<>> \/ c.selected[1] + 1 > Len(c.message_keys) THEN <<>>
    ELSE IF c.message_keys[c.selected[1] + 1].kind = "IssueBody"
    THEN (IF c.body_cache_number = <<c.message_keys[c.selected[1] + 1].id>>
          THEN c.body_cache ELSE <<>>)
    ELSE c.markdown_cache[c.message_keys[c.selected[1] + 1].id]

\* render_body: the document of the selected message, or the placeholder
\* line
Placeholder == [kind |-> "placeholder"]

RenderBodyPane(c) ==
    [c EXCEPT !.painted = IF SelectedBodyRender(c) = <<>> THEN <<Placeholder>>
                          ELSE <<[kind |-> "document", doc |-> SelectedBodyRender(c)[1]]>>]

\* IssueConversation::render: the fullscreen view paints the body alone into
\* the whole area; the split view builds the items for the right half of the
\* area and paints the body there.
ConvRender(c) ==
    IF c.screen = "DetailsFullscreen" THEN RenderBodyPane(c)
    ELSE RenderBodyPane(BuildItems(c, c.term \div 2))

\* last names the step when it is a paint or the response of a fetch.
NoStep == [action |-> "None"]

\* The step of a handler: painted holds what the step has painted, nothing
\* when it is no paint.
CvDone(c, action) ==
    rs' = [c EXCEPT !.last = action,
                    !.painted = IF action.action = "Render" THEN @ ELSE <<>>]

CvEnterIssueDetails ==
    /\ rs.screen = "Details"
    /\ \E seed \in Seeds :
          /\ \/ seed.number \in rs.loading
             \/ rs.cache_number = <<seed.number>>
             \/ rs.inflight[seed.number] < MaxInFlight
          /\ CvDone(EnterIssueDetails(rs, seed),
                    NoStep)
    /\ UNCHANGED <<tr, lk, md>>

CvIssueCommentsLoaded ==
    /\ \E number \in IssueNumbers :
          /\ rs.inflight[number] > 0
          /\ \E comments \in CommentLists(number) :
                CvDone([IssueCommentsLoaded(rs, number, comments)
                           EXCEPT !.inflight[number] = @ - 1],
                       [action |-> "IssueCommentsLoaded", number |-> number])
    /\ UNCHANGED <<tr, lk, md>>

CvIssueCommentsError ==
    /\ \E number \in IssueNumbers :
          /\ rs.inflight[number] > 0
          /\ CvDone([IssueCommentsError(rs, number) EXCEPT !.inflight[number] = @ - 1],
                    NoStep)
    /\ UNCHANGED <<tr, lk, md>>

\* The answer to a comment the user posted in issue 1.
CvIssueCommentPosted ==
    /\ \A i \in 1..Len(rs.cache_comments) : rs.cache_comments[i].id # PostedCommentId
    /\ CvDone(IssueCommentPosted(rs, 1, Comment(PostedCommentId, TextAb)),
              NoStep)
    /\ UNCHANGED <<tr, lk, md>>

\* The answer to an edit of the first comment of an issue.
CvIssueCommentPatched ==
    /\ \E number \in IssueNumbers, body \in BodyTexts :
          /\ \E i \in 1..Len(rs.cache_comments) :
                /\ rs.cache_comments[i].id = FirstCommentOf(number)
                /\ rs.cache_comments[i].body # body
          /\ CvDone(IssueCommentPatched(rs, number, Comment(FirstCommentOf(number), body)),
                    NoStep)
    /\ UNCHANGED <<tr, lk, md>>

\* The terminal is resized.
CvResize ==
    /\ \E term \in TermWidths \ {rs.term} :
          CvDone([rs EXCEPT !.term = term], NoStep)
    /\ UNCHANGED <<tr, lk, md>>

\* Action::ChangeIssueScreen between the split and the fullscreen view
CvChangeIssueScreen ==
    /\ rs.current # <<>>
    /\ CvDone([rs EXCEPT !.screen = IF @ = "Details" THEN "DetailsFullscreen" ELSE "Details"],
              NoStep)
    /\ UNCHANGED <<tr, lk, md>>

\* The selection moves to another row of the list.
CvSelect ==
    /\ rs.screen = "Details"
    /\ \E row \in 0..(rs.rows - 1) :
          /\ rs.selected # <<row>>
          /\ CvDone([rs EXCEPT !.selected = <<row>>], NoStep)
    /\ UNCHANGED <<tr, lk, md>>

\* One frame is drawn.
CvRender ==
    /\ CvDone(ConvRender(rs), [action |-> "Render"])
    /\ UNCHANGED <<tr, lk, md>>

NextConv ==
    \/ CvEnterIssueDetails
    \/ CvIssueCommentsLoaded
    \/ CvIssueCommentsError
    \/ CvIssueCommentPosted
    \/ CvIssueCommentPatched
    \/ CvResize
    \/ CvChangeIssueScreen
    \/ CvSelect
    \/ CvRender

SpecConv == InitConv /\ [][NextConv]_vars

(***************************************************************************)
(* Claim about the document painted in the body pane.                       *)
(***************************************************************************)
\* The width of the pane render_body paints into: the whole area in the
\* fullscreen view, its right half in the split view.
PaneWidth(c) == IF c.screen = "DetailsFullscreen" THEN c.term ELSE c.term \div 2

SelectedKey(c) == c.message_keys[c.selected[1] + 1]

\* The text the message of a key has now, if the message exists.
MessageBody(c, key) ==
    IF c.current = <<>> THEN <<>>
    ELSE IF key.kind = "IssueBody"
    THEN (IF key.id = c.current[1].number THEN c.current[1].body ELSE <<>>)
    ELSE IF \E i \in 1..Len(c.cache_comments) : c.cache_comments[i].id = key.id
    THEN <<c.cache_comments[CHOOSE i \in 1..Len(c.cache_comments) :
                               c.cache_comments[i].id = key.id].body>>
    ELSE <<>>

\* The selection is on an issue body or a comment that exists.
HasSelectedMessage(c) ==
    /\ SelectedChecked(c) # <<>>
    /\ c.selected[1] + 1 <= Len(c.message_keys)
    /\ MessageBody(c, SelectedKey(c)) # <<>>

FreshDocument(c) ==
    <<[kind |-> "document",
       doc |-> RenderMarkdown(MessageBody(c, SelectedKey(c))[1], ItemsWidth(PaneWidth(c)), 2)]>>

RenderStep == rs'.last.action = "Render"

\* C34: after any sequence of actions, a paint with an issue body or a
\* comment selected puts into the body pane the document render_markdown
\* gives for the text the message has now, at the width derived from the
\* pane painted into, with indent 2.
C34_PaintedDocumentFresh ==
    [][(RenderStep /\ HasSelectedMessage(rs')) => rs'.painted = FreshDocument(rs')]_vars

\* The same for the paints of the split view, where build_items runs before
\* render_body.
PaintedFreshInSplitView ==
    [][(RenderStep /\ rs'.screen = "Details" /\ HasSelectedMessage(rs'))
          => rs'.painted = FreshDocument(rs')]_vars

\* A fullscreen paint of the document that was rendered for the split view.
SplitWidthDocumentPaintedFullscreen ==
    /\ rs.last.action = "Render" /\ rs.screen = "DetailsFullscreen"
    /\ HasSelectedMessage(rs)
    /\ SelectedKey(rs).kind = "IssueBody"
    /\ rs.painted # <<Placeholder>>
    /\ rs.painted # FreshDocument(rs)
    /\ rs.painted[1].doc = RenderMarkdown(rs.current[1].body[1], ItemsWidth(rs.term \div 2), 2)

\* A fullscreen paint of the placeholder line with a comment selected whose
\* document was dropped from the cache.
PlaceholderPaintedForComment ==
    /\ rs.last.action = "Render" /\ rs.screen = "DetailsFullscreen"
    /\ HasSelectedMessage(rs)
    /\ SelectedKey(rs).kind = "Comment"
    /\ rs.painted = <<Placeholder>>

(***************************************************************************)
(* Claim about the responses of the comment fetches.                        *)
(***************************************************************************)
LoadedStep(n) == rs'.last = [action |-> "IssueCommentsLoaded", number |-> n]

\* The issue a comment of the model belongs to.
IssueOfComment(id) == id \div 10

\* The comments cached, and the documents cached for comments, are those of
\* the issue cache_number names; the comments listed by a paint of the split
\* view, and the comment whose document a paint puts into the body pane, are
\* comments of the current issue.
CachedCommentsOfCacheNumber(c) ==
    /\ \A i \in 1..Len(c.cache_comments) :
          c.cache_number = <<IssueOfComment(c.cache_comments[i].id)>>
    /\ \A id \in CommentIds :
          c.markdown_cache[id] # <<>> => c.cache_number = <<IssueOfComment(id)>>

ListedCommentsOfCurrent(c) ==
    \A i \in 1..Len(c.message_keys) :
        c.message_keys[i].kind = "Comment" =>
            IsCurrent(c, IssueOfComment(c.message_keys[i].id))

ShownCommentsOfCurrent(c) ==
    /\ c.screen = "Details" => ListedCommentsOfCurrent(c)
    /\ (c.painted # <<Placeholder>> /\ SelectedKey(c).kind = "Comment") =>
           IsCurrent(c, IssueOfComment(SelectedKey(c).id))

\* C37: under every interleaving of EnterIssueDetails and the responses, a
\* response for issue n clears n's loading mark; it replaces the cached
\* comments when n is the current issue, and otherwise leaves the comment
\* cache, the per-comment render cache and the body cache as they were; the
\* comments a paint shows belong to the current issue.
C37_ResponseForCurrentIssueOnly ==
    /\ [][\A n \in IssueNumbers :
             LoadedStep(n) =>
                 /\ rs'.loading = rs.loading \ {n}
                 /\ IF IsCurrent(rs, n)
                    THEN /\ rs'.cache_number = <<n>>
                         /\ rs'.cache_comments \in CommentLists(n)
                    ELSE /\ rs'.cache_number = rs.cache_number
                         /\ rs'.cache_comments = rs.cache_comments
                         /\ rs'.markdown_cache = rs.markdown_cache
                         /\ rs'.body_cache = rs.body_cache
                         /\ rs'.body_cache_number = rs.body_cache_number]_vars
    /\ [][RenderStep => ShownCommentsOfCurrent(rs')]_vars
    /\ [](CachedCommentsOfCacheNumber(rs))

\* The response for an issue the user has left is handled while the comments
\* of the current issue are cached and listed.
C37_Witness ==
    /\ rs.last.action = "IssueCommentsLoaded"
    /\ rs.current # <<>> /\ rs.last.number # rs.current[1].number
    /\ rs.cache_number = <<rs.current[1].number>>
    /\ rs.cache_comments # <<>>
    /\ rs.last.number \notin rs.loading
    /\ rs.message_keys # <<>>
    /\ rs.message_keys[1].kind = "Comment"

(***************************************************************************)
(* Claim about the space between two words of one line.                     *)
(***************************************************************************)
\* The text of the step's event, and its first word.
StepText == SubSeq(md'.gtext, Len(md.gtext) + 1, Len(md'.gtext))
StepWords == Words(StepText, <<>>)

\* The line a step continues: the pending line of the renderer before it,
\* as it stands after the step (in the lines or still pending).
ContinuedLine == AllLines(md'.r)[Len(md.r.lines) + 1]

\* A text step whose first word comes after whitespace and is put on the
\* line that already ends with a word.
WordJoinsLine ==
    /\ md'.n = md.n + 1 /\ md'.last \in {"Text", "Html"}
    /\ md.r.current_line # <<>>
    /\ ~IsPrefixSpan(md.r.current_line[Len(md.r.current_line)])
    /\ md.r.current_line[Len(md.r.current_line)].content # <<>>
    /\ md.r.pending_space \/ IsWhitespace(StepText[1])
    /\ StepWords # <<>>
    /\ Len(ContinuedLine) > Len(md.r.current_line)

\* One space span of one cell between the word the line ended with and the
\* word added.
OneSpaceBetween ==
    /\ Len(ContinuedLine) >= Len(md.r.current_line) + 2
    /\ ContinuedLine[Len(md.r.current_line) + 1].kind = "space"
    /\ ContinuedLine[Len(md.r.current_line) + 1].content = <<" ">>
    /\ ContinuedLine[Len(md.r.current_line) + 2].kind \in {"word", "long"}
    /\ ContinuedLine[Len(md.r.current_line) + 2].content[1] = StepWords[1][1]

WordFitsBudget == DisplayWidth(StepWords[1]) <= SatSub(md.r.max_width, PrefixWidth(md.r))

\* C35: two words of the input separated by whitespace that come to stand on
\* the same rendered line have exactly one space cell between them, also
\* when the second word is wider than the wrap budget and is broken by the
\* long-word path right after a shorter word.
C35_OneSpaceBetweenWords == [][WordJoinsLine => OneSpaceBetween]_vars

\* The same for a second word that fits the budget after a line that has
\* cells past its prefix.
OneSpaceBeforeFittingWord ==
    [][(WordJoinsLine /\ WordFitsBudget /\ md.r.current_width > PrefixWidth(md.r))
          => OneSpaceBetween]_vars

\* A short word, a soft break and a word wider than the line: the first
\* fragment of the long word directly after the short word.
LongWordJoinedWithoutSpace ==
    /\ md.started /\ md.n = 3 /\ md.last = "Text"
    /\ md.gtext = TextAb \o <<"\n">> \o TextLong
    /\ md.r.lines # <<>>
    /\ Len(md.r.lines[1]) >= 2
    /\ md.r.lines[1][Len(md.r.lines[1]) - 1].content = TextAb
    /\ md.r.lines[1][Len(md.r.lines[1])].kind = "long"

(***************************************************************************)
(* Claim about the text that reaches the rendered lines.                    *)
(***************************************************************************)
IsInk(c) == ~IsWhitespace(c)
Ink(str) == SelectSeq(str, IsInk)

\* The spans of the lines, top to bottom and left to right.
RECURSIVE AllSpans(_)
AllSpans(lines) == IF lines = <<>> THEN <<>> ELSE Head(lines) \o AllSpans(Tail(lines))

\* The spans that are text of the document outside code blocks: all but the
\* prefixes and the lines of code blocks; the same without the title lines;
\* and the title lines.
IsTextSpan(sp) == ~IsPrefixSpan(sp) /\ sp.kind # "code"
IsBodySpan(sp) == IsTextSpan(sp) /\ sp.kind # "title"
IsTitleSpan(sp) == sp.kind = "title"

\* The non-whitespace characters of the spans kept, in reading order.
InkOfLines(lines, keep(_)) == Ink(LineText(SelectSeq(AllSpans(lines), keep)))
RenderedInk(r, keep(_)) == InkOfLines(AllLines(r), keep)

\* The step hands the renderer a text that it takes for the marker of the
\* quote's kind.
MarkerTextStep(kind) ==
    /\ md'.last = "Text" /\ ~md.r.in_code_block
    /\ md.r.in_block_quote /\ md.r.block_quote_title_pending
    /\ md.r.block_quote_style = <<AdmonitionStyle(kind)>>
    /\ IsMarkerText(md'.arg, kind)

IsMarkerTextStep == \E kind \in AdmonitionKinds : MarkerTextStep(kind)

ShownTitle(kind) ==
    IF TrailingText(md'.arg, kind) = <<>> THEN AdmonitionStyle(kind).default_title
    ELSE TrailingText(md'.arg, kind)

\* The text of the step's event, when it is a text, inline code, math or
\* task marker event outside a code block.
EventText ==
    IF md'.last = "Text" /\ ~md.r.in_code_block THEN md'.arg
    ELSE IF md'.last \in {"Code", "Math"} THEN TextAb
    ELSE IF md'.last = "TaskListMarker" THEN <<"[", " ", "]", " ">>
    ELSE <<>>

EventStep == md'.n = md.n + 1
FinishStep == md'.done /\ ~md.done

\* The step adds the characters to the end of what the spans kept held.
InkAdded(keep(_), added) == RenderedInk(md'.r, keep) = RenderedInk(md.r, keep) \o added

\* finish returns what the lines held.
DocumentKeeps(keep(_)) ==
    FinishStep => InkOfLines(md'.doc[1].lines, keep) = RenderedInk(md.r, keep)

CurrentPrefix(r) ==
    (IF r.indent > 0 THEN <<[kind |-> "indent", content |-> Repeat(" ", r.indent)]>> ELSE <<>>)
    \o (IF r.in_block_quote THEN <<[kind |-> "border", content |-> BorderText]>> ELSE <<>>)
    \o (IF r.list_prefix # <<>> THEN <<[kind |-> "list", content |-> r.list_prefix[1]]>>
        ELSE <<>>)

BeginsWithPrefix(r) ==
    /\ Len(r.current_line) >= Len(CurrentPrefix(r))
    /\ \A i \in 1..Len(CurrentPrefix(r)) :
          /\ r.current_line[i].kind = CurrentPrefix(r)[i].kind
          /\ r.current_line[i].content = CurrentPrefix(r)[i].content

PendingLineHasPrefix(r) ==
    r.current_line # <<>> => (BeginsWithPrefix(r) /\ r.current_width >= PrefixWidth(r))

\* C38: in every state of the renderer current_width is the summed display
\* width of the spans of the pending line, 0 when that line is empty, and a
\* pending line that is not empty begins with the full current prefix, so
\* that current_width >= prefix_width().
C38_CurrentWidthTracksLine ==
    /\ md.r.current_width = LineWidth(md.r.current_line)
    /\ PendingLineHasPrefix(md.r)

\* The same outside quotes; on a quoted line current_width is ahead of the
\* spans by what the border is counted wider than its span is.
CurrentWidthTracksLineOutsideQuotes ==
    /\ PendingLineHasPrefix(md.r)
    /\ md.r.current_line = <<>> => md.r.current_width = 0
    /\ (md.r.current_line # <<>> /\ ~md.r.in_block_quote) =>
           md.r.current_width = LineWidth(md.r.current_line)
    /\ (md.r.current_line # <<>> /\ md.r.in_block_quote) =>
           md.r.current_width
               = LineWidth(md.r.current_line) + BorderWidth - DisplayWidth(BorderText)

\* A word pending on a quoted line: the spans are five cells wide, the width
\* tracked is six.
QuotedLineCountedWider ==
    /\ md.started /\ md.n = 2 /\ md.last = "Text" /\ md.arg = TextAb
    /\ md.r.in_block_quote
    /\ LineWidth(md.r.current_line) = 5
    /\ md.r.current_width = 6

====
